---------------------------- MODULE Spec2Model ----------------------------
(***************************************************************************)
(* Model of the element handlers of src/lib/element.py: the single-unit    *)
(* handler (ElementHandler), the merge handler (ElementHandlerMerge) and   *)
(* its realignment of translated batches (align_paragraph).                *)
(*                                                                         *)
(* Text is a sequence of one-character strings.  "n" stands for the        *)
(* newline character, " " for a blank, "P" for one occurrence of a text    *)
(* matched by the placeholder pattern with an unpadded index (the legacy   *)
(* placeholder-as-separator form that align_paragraph still accepts).      *)
(***************************************************************************)
EXTENDS Integers, Sequences, FiniteSets, TLC

(***************************************************************************)
(* Python values                                                           *)
(***************************************************************************)
\* Python's None, a value different from every text.
None == <<"<None>">>

\* The characters str.strip() and the regular expression \s treat as blank.
Whitespace == {"n", " "}

\* The separator the translation engines hand to the handler ('\n\n').
separator == <<"n", "n">>

Min(a, b) == IF a < b THEN a ELSE b

\* text[i:] of Python (i counted from 0).
From(s, i) == SubSeq(s, i + 1, Len(s))

\* text[:i] of Python.
Upto(s, i) == SubSeq(s, 1, Min(i, Len(s)))

\* text[-2:] of Python.
LastTwo(s) == IF Len(s) <= 2 THEN s ELSE SubSeq(s, Len(s) - 1, Len(s))

\* text.startswith(p)
StartsWith(s, p) == Len(p) <= Len(s) /\ SubSeq(s, 1, Len(p)) = p

RECURSIVE LStrip(_)
LStrip(s) == IF s /= <<>> /\ Head(s) \in Whitespace THEN LStrip(Tail(s)) ELSE s

RECURSIVE RStrip(_)
RStrip(s) ==
    IF s /= <<>> /\ s[Len(s)] \in Whitespace
    THEN RStrip(SubSeq(s, 1, Len(s) - 1))
    ELSE s

\* str.strip()
Strip(s) == RStrip(LStrip(s))

\* str.split(sep) for a non-empty sep: scans left to right, cuts at every
\* non-overlapping occurrence, always returns at least one segment.
RECURSIVE SplitFrom(_, _, _)
SplitFrom(s, sep, cur) ==
    IF s = <<>> THEN <<cur>>
    ELSE IF StartsWith(s, sep)
         THEN <<cur>> \o SplitFrom(From(s, Len(sep)), sep, <<>>)
         ELSE SplitFrom(Tail(s), sep, Append(cur, Head(s)))

Split(s, sep) == SplitFrom(s, sep, <<>>)

\* delim.join(parts)
RECURSIVE Join(_, _)
Join(parts, delim) ==
    IF parts = <<>> THEN <<>>
    ELSE IF Len(parts) = 1 THEN parts[1]
    ELSE parts[1] \o delim \o Join(Tail(parts), delim)

\* Length of the run of characters c at the start of s.
RECURSIVE RunLen(_, _)
RunLen(s, c) == IF s /= <<>> /\ Head(s) = c THEN 1 + RunLen(Tail(s), c) ELSE 0

\* Length of the run of blanks at the start of s.
RECURSIVE BlankLen(_)
BlankLen(s) ==
    IF s /= <<>> /\ Head(s) \in Whitespace THEN 1 + BlankLen(Tail(s)) ELSE 0

\* re.compile('%s+' % sep).sub(sep, s): the pattern is the separator with its
\* last character repeated one or more times; every leftmost, non-overlapping
\* match is replaced by one separator.
RECURSIVE CollapseSeparators(_, _)
CollapseSeparators(s, sep) ==
    IF s = <<>> THEN <<>>
    ELSE IF StartsWith(s, sep)
         THEN LET rest == From(s, Len(sep))
                  more == RunLen(rest, sep[Len(sep)])
              IN  sep \o CollapseSeparators(From(rest, more), sep)
         ELSE <<Head(s)>> \o CollapseSeparators(Tail(s), sep)

\* re.compile(r'\s*%s\s*' % placeholder).sub(sep, s): every placeholder,
\* together with the blanks around it, is replaced by one separator.
RECURSIVE ReplacePlaceholders(_, _)
ReplacePlaceholders(s, sep) ==
    IF s = <<>> THEN <<>>
    ELSE LET lead  == BlankLen(s)
             after == From(s, lead)
         IN  IF after /= <<>> /\ Head(after) = "P"
             THEN LET rest == Tail(after)
                  IN  sep \o ReplacePlaceholders(From(rest, BlankLen(rest)), sep)
             ELSE <<Head(s)>> \o ReplacePlaceholders(Tail(s), sep)

\* list(zip(xs, ys)): as long as the shorter of the two.
Zip(xs, ys) == [i \in 1..Min(Len(xs), Len(ys)) |-> <<xs[i], ys[i]>>]

\* [None] * k
Nones(k) == [i \in 1..k |-> None]

(***************************************************************************)
(* ElementHandlerMerge.align_paragraph and prepare_translation             *)
(***************************************************************************)
\* A Paragraph of the cache: the text that was sent and the text that came
\* back (None when nothing came back).
Paragraph(original, translation) ==
    [original |-> original, translation |-> translation]

\* align_paragraph, lines 525-532: a paragraph whose original does not end
\* with the separator is taken to use placeholders as separators; both texts
\* are rewritten in place.
NormalizeParagraph(paragraph, sep) ==
    IF LastTwo(paragraph.original) /= sep
    THEN [original    |-> ReplacePlaceholders(paragraph.original, sep),
          translation |-> IF paragraph.translation = None
                          THEN None
                          ELSE ReplacePlaceholders(paragraph.translation, sep)]
    ELSE paragraph

\* originals = paragraph.original.strip().split(self.separator)
OriginalSegments(paragraph, sep) ==
    Split(Strip(NormalizeParagraph(paragraph, sep).original), sep)

\* translations = pattern.sub(sep, translation).strip().split(sep)
TranslatedSegments(paragraph, sep) ==
    Split(Strip(CollapseSeparators(
        NormalizeParagraph(paragraph, sep).translation, sep)), sep)

\* '\n\n'.join(translations)
MergeTranslations(translations) == Join(translations, <<"n", "n">>)

\* Mutant of AlignFewer: the deficit is not padded for left and right.
AlignFewer_NoPadding(originals, translations, position) ==
    IF position \in {"left", "right"}
    THEN translations
    ELSE IF position \in {"above"}
         THEN <<MergeTranslations(translations)>> \o Nones(Len(originals) - 1)
         ELSE Nones(Len(originals) - 1) \o <<MergeTranslations(translations)>>

\* Mutant of AlignFewer: the joined block always goes to the last original.
AlignFewer_AlwaysLast(originals, translations, position) ==
    IF position \in {"left", "right"}
    THEN translations \o Nones(Len(originals) - Len(translations))
    ELSE Nones(Len(originals) - 1) \o <<MergeTranslations(translations)>>

\* The branch offset > 0: fewer translated segments than original ones.
AlignFewer(originals, translations, position) ==
    IF position \in {"left", "right"}
    THEN translations \o Nones(Len(originals) - Len(translations))
    ELSE IF position \in {"above"}
         THEN <<MergeTranslations(translations)>> \o Nones(Len(originals) - 1)
         ELSE Nones(Len(originals) - 1) \o <<MergeTranslations(translations)>>

\* Mutant of AlignMore: the surplus segments are cut off instead of folded.
AlignMore_DropSurplus(originals, translations) ==
    Upto(translations, Len(originals))

\* The branch offset < 0: more translated segments than original ones.
AlignMore(originals, translations) ==
    LET offset == Len(originals) - 1
    IN  Upto(translations, offset)
            \o <<MergeTranslations(From(translations, offset))>>

\* ElementHandlerMerge.align_paragraph: the list of (original, translation)
\* pairs of one batch.
align_paragraph(paragraph, position, sep) ==
    LET originals == OriginalSegments(paragraph, sep)
    IN  IF NormalizeParagraph(paragraph, sep).translation = None
        THEN Zip(originals, Nones(Len(originals)))
        ELSE LET translations == TranslatedSegments(paragraph, sep)
                 offset == Len(originals) - Len(translations)
             IN  IF offset > 0
                 THEN Zip(originals,
                          AlignFewer(originals, translations, position))
                 ELSE IF offset < 0
                      THEN Zip(originals, AlignMore(originals, translations))
                      ELSE Zip(originals, translations)

(***************************************************************************)
(* ElementHandler.prepare_original and ElementHandlerMerge.prepare_original*)
(***************************************************************************)
\* '%s' % oid: the decimal digits of a natural number.
Digit(d) == <<"0", "1", "2", "3", "4", "5", "6", "7", "8", "9">>[d + 1]

RECURSIVE Decimal(_)
Decimal(k) ==
    IF k < 10 THEN <<Digit(k)>> ELSE Decimal(k \div 10) \o <<Digit(k % 10)>>

\* utils.uid: the digest of a text, taken to be injective.
uid(text) == [digest |-> text]

\* uid('%s%s' % (oid, content))
Fingerprint(oid, content) == uid(Decimal(oid) \o content)

\* An element as the handlers see it: what get_raw() and get_content()
\* return, its ignored flag and its page.  Elements are told apart by their
\* place in the list handed to prepare_original.
Unit(raw, content, ignored) ==
    [raw |-> raw, content |-> content, ignored |-> ignored,
     attrs |-> None, page_id |-> <<"p">>]

\* Mutant of Registers: ignored elements are registered as well.
Registers_All(element) == TRUE

\* ElementHandler.prepare_original, line 461: which elements are registered.
Registers(element) == ~element.ignored

\* ElementHandler.prepare_original, lines 453-466: the loop from element
\* number oid on; elems and origs are self.elements and self.originals.
RECURSIVE SinglePrepareLoop(_, _, _, _, _)
SinglePrepareLoop(us, oid, count, elems, origs) ==
    IF oid = Len(us) THEN [elements |-> elems, originals |-> origs]
    ELSE LET element == us[oid + 1]
             record == [oid      |-> oid,
                        md5      |-> Fingerprint(oid, element.content),
                        raw      |-> element.raw,
                        content  |-> element.content,
                        ignored  |-> element.ignored,
                        attrs    |-> element.attrs,
                        page_id  |-> element.page_id]
         IN  IF Registers(element)
             THEN SinglePrepareLoop(us, oid + 1, count + 1,
                      (count :> (oid + 1)) @@ elems, Append(origs, record))
             ELSE SinglePrepareLoop(us, oid + 1, count,
                      elems, Append(origs, record))

\* Mutant of Fits: a batch may reach merge_length.
Fits_OrEqual(txt, content, length) == Len(txt \o content) <= length

\* ElementHandlerMerge.prepare_original, line 509.
Fits(txt, content, length) == Len(txt \o content) < length

\* The Original record of one batch (lines 514-515 and 519-520).
BatchRecord(oid, raw, txt) ==
    [oid |-> oid, md5 |-> Fingerprint(oid, txt), raw |-> raw,
     content |-> txt, ignored |-> FALSE]

\* ElementHandlerMerge.prepare_original, lines 499-520: the loop from
\* element number eid on, then the flush of the last batch.
RECURSIVE MergePrepareLoop(_, _, _, _, _, _, _, _, _)
MergePrepareLoop(us, eid, raw, txt, oid, elems, origs, sep, length) ==
    IF eid = Len(us)
    THEN [elements  |-> elems,
          originals |-> IF txt /= <<>>
                        THEN Append(origs, BatchRecord(oid, raw, txt))
                        ELSE origs]
    ELSE LET element == us[eid + 1]
             elems2  == (eid :> (eid + 1)) @@ elems
             code    == element.raw
             content == element.content \o sep
         IN  IF element.ignored
             THEN MergePrepareLoop(us, eid + 1, raw, txt, oid, elems2, origs,
                                   sep, length)
             ELSE IF Fits(txt, content, length)
             THEN MergePrepareLoop(us, eid + 1, raw \o code \o sep,
                                   txt \o content, oid, elems2, origs,
                                   sep, length)
             ELSE IF txt /= <<>>
             THEN MergePrepareLoop(us, eid + 1, code, content, oid + 1, elems2,
                                   Append(origs, BatchRecord(oid, raw, txt)),
                                   sep, length)
             ELSE MergePrepareLoop(us, eid + 1, code, content, oid, elems2,
                                   origs, sep, length)

(***************************************************************************)
(* prepare_translation, PageElement.add_translation, add_translations      *)
(***************************************************************************)
\* dict(pairs): one entry per key, the last pair of a key giving its value.
DictOf(pairs) ==
    [key \in {pairs[i][1] : i \in DOMAIN pairs} |->
        LET last == CHOOSE i \in DOMAIN pairs :
                        /\ pairs[i][1] = key
                        /\ \A j \in DOMAIN pairs : pairs[j][1] = key => j <= i
        IN  pairs[last][2]]

\* translations.get(original)
Get(lookup, key) == IF key \in DOMAIN lookup THEN lookup[key] ELSE None

\* ElementHandler.prepare_translation
SinglePrepareTranslation(paras) ==
    DictOf([i \in 1..Len(paras) |-> <<paras[i].original, paras[i].translation>>])

\* The pairs of all batches, in order (the list prepare_translation extends).
RECURSIVE AlignAll(_, _, _)
AlignAll(paras, pos, sep) ==
    IF paras = <<>> THEN <<>>
    ELSE align_paragraph(Head(paras), pos, sep) \o AlignAll(Tail(paras), pos, sep)

\* ElementHandlerMerge.prepare_translation
MergePrepareTranslation(paras, pos, sep) == DictOf(AlignAll(paras, pos, sep))

\* PageElement.add_translation on the node of one element.  A node records
\* whether it is still in the tree, how often add_translation was applied to
\* it, how often it was removed, whether a table was put in its place and
\* what was inserted beside it.  The call removes the node for left and right
\* (lines 230-231, 273-274) and for only with a translation; removing a node
\* that is no longer in the tree raises (getparent() is None), and what was
\* inserted beside such a node is not in the document.
AddTranslation(node, translation, pos) ==
    LET called == [node EXCEPT !.applied = @ + 1]
        sideBySide == pos \in {"left", "right"}
        deletes == sideBySide \/ (translation /= None /\ pos = "only")
        place == IF sideBySide THEN "table"
                 ELSE IF pos = "above" THEN "before" ELSE "after"
        inserts == translation /= None \/ sideBySide
        put == IF inserts /\ node.attached
               THEN [called EXCEPT
                       !.inserted = Append(@, <<place, translation>>),
                       !.table = @ \/ sideBySide]
               ELSE called
    IN  IF ~deletes THEN [node |-> put, raised |-> FALSE]
        ELSE IF ~node.attached THEN [node |-> put, raised |-> TRUE]
        ELSE [node |-> [put EXCEPT !.attached = FALSE, !.removed = @ + 1],
              raised |-> FALSE]

\* The keys of a pending map in the order the loop visits them.
RECURSIVE KeysInOrder(_)
KeysInOrder(keys) ==
    IF keys = {} THEN <<>>
    ELSE LET least == CHOOSE k \in keys : \A other \in keys : k <= other
         IN  <<least>> \o KeysInOrder(keys \ {least})

\* self.elements.pop(eid)
Pop(elems, eid) == [k \in (DOMAIN elems) \ {eid} |-> elems[k]]

\* ElementHandler.add_translations, lines 477-491: the loop over the copy of
\* the pending map; log collects the add_translation calls made.
RECURSIVE AddTranslationsLoop(_, _, _, _, _, _, _)
AddTranslationsLoop(keys, us, pos, lookup, elems, nds, log) ==
    IF keys = <<>>
    THEN [elements |-> elems, nodes |-> nds, calls |-> log, failed |-> FALSE]
    ELSE LET eid == Head(keys)
             unit == elems[eid]
             translation == IF us[unit].ignored
                            THEN None
                            ELSE Get(lookup, us[unit].content)
             done == AddTranslation(nds[unit], translation, pos)
             nds2 == [nds EXCEPT ![unit] = done.node]
             log2 == Append(log, <<unit, translation>>)
         IN  IF done.raised
             THEN [elements |-> elems, nodes |-> nds2, calls |-> log2,
                   failed |-> TRUE]
             ELSE IF translation = None
             THEN AddTranslationsLoop(Tail(keys), us, pos, lookup, elems,
                                      nds2, log2)
             ELSE AddTranslationsLoop(Tail(keys), us, pos, lookup,
                                      Pop(elems, eid), nds2, log2)

(***************************************************************************)
(* PageElement: the placeholder codec (get_content, add_translation)       *)
(***************************************************************************)
\* An lxml tree is a sequence of nodes in document order: node 1 is the
\* root, parent is the index of the parent (0: the node has none), text and
\* tail are texts ('' and None are both <<>>, the code reads them through
\* "x or ''").
Node(tag, text, tail, parent) ==
    [tag |-> tag, text |-> text, tail |-> tail, parent |-> parent]

\* element.findall('./*'): the children of node p, in document order.
Children(tree, p) ==
    KeysInOrder({i \in DOMAIN tree : tree[i].parent = p})

\* Node i lies below node top.
RECURSIVE IsUnder(_, _, _)
IsUnder(tree, i, top) ==
    /\ tree[i].parent /= 0
    /\ \/ tree[i].parent = top
       \/ IsUnder(tree, tree[i].parent, top)

\* PageElement._get_descendents(element, tags): the descendants of the root
\* with one of the tags, in document order.
_get_descendents(tree, tags) ==
    KeysInOrder({i \in DOMAIN tree : IsUnder(tree, i, 1) /\ tree[i].tag \in tags})

\* reserve.getprevious(): the sibling just before node i, 0 when there is none.
getprevious(tree, i) ==
    LET before == {j \in DOMAIN tree :
                       j < i /\ tree[i].parent /= 0 /\ tree[j].parent = tree[i].parent}
    IN  IF before = {} THEN 0
        ELSE CHOOSE j \in before : \A other \in before : other <= j

\* ''.join(element.itertext()): the texts below node i in document order,
\* without the tail of node i itself.
RECURSIVE itertext(_, _)
RECURSIVE TextOfChildren(_, _)
itertext(tree, i) == tree[i].text \o TextOfChildren(tree, Children(tree, i))
TextOfChildren(tree, children) ==
    IF children = <<>> THEN <<>>
    ELSE itertext(tree, Head(children)) \o tree[Head(children)].tail
             \o TextOfChildren(tree, Tail(children))

\* utils.trim: leading and trailing whitespace removed.
trim(text) == Strip(text)

\* etree.tostring(element, with_tail=False): a tag is one token of the
\* markup, the characters between tags are kept one by one.
\* The markup characters of a text are serialized as entities, each one
\* token of the markup.
Serialized(text) ==
    [k \in DOMAIN text |->
        IF text[k] = "&" THEN "&amp;"
        ELSE IF text[k] = "<" THEN "&lt;"
        ELSE IF text[k] = ">" THEN "&gt;"
        ELSE text[k]]

RECURSIVE tostring(_, _)
RECURSIVE MarkupOfChildren(_, _)
tostring(tree, i) ==
    <<"<" \o tree[i].tag \o ">">> \o Serialized(tree[i].text)
        \o MarkupOfChildren(tree, Children(tree, i))
        \o <<"</" \o tree[i].tag \o ">">>
MarkupOfChildren(tree, children) ==
    IF children = <<>> THEN <<>>
    ELSE tostring(tree, Head(children))
             \o Serialized(tree[Head(children)].tail)
             \o MarkupOfChildren(tree, Tail(children))

\* get_string(element), lines 12-16.
get_string(tree, i) == trim(tostring(tree, i))

\* The tags get_content removes from the copy, and the tags it reserves
\* (lines 193, 199).
NoiseTags == {"rt", "rp", "sup", "sub"}
ReserveTags == {"img", "code", "br", "hr", "sub", "sup", "kbd"}

\* parent.remove(node): the node leaves its tree, with what is below it.
Detach(tree, i) == [tree EXCEPT ![i].parent = 0]

\* Lines 192-196: each noise node gives its tail to the text of its parent
\* and is removed.
RECURSIVE RemoveNoise(_, _)
RemoveNoise(tree, noises) ==
    IF noises = <<>> THEN tree
    ELSE LET noise == Head(noises)
             parent == tree[noise].parent
             moved == [tree EXCEPT ![parent].text = @ \o tree[noise].tail]
         IN  RemoveNoise(Detach(moved, noise), Tail(noises))

\* format(count, '05')
Format05(count) ==
    LET digits == Decimal(count)
    IN  [i \in 1..(5 - Min(5, Len(digits))) |-> "0"] \o digits

\* placeholder[0].format(index): the encode template around the index.
Placeholder(index) == <<"{">> \o index \o <<"}">>

\* Lines 201-212: each reserved node is replaced by its placeholder, which
\* goes with the node's tail to the tail of the previous sibling or to the
\* text of the parent; the node is removed without its tail.
RECURSIVE ReplaceReserved(_, _, _)
ReplaceReserved(tree, reserves, count) ==
    IF reserves = <<>> THEN tree
    ELSE LET reserve == Head(reserves)
             replacement == Placeholder(Format05(count))
             previous == getprevious(tree, reserve)
             parent == tree[reserve].parent
             moved == IF previous /= 0
                      THEN [tree EXCEPT ![previous].tail =
                                @ \o replacement \o tree[reserve].tail]
                      ELSE [tree EXCEPT ![parent].text =
                                @ \o replacement \o tree[reserve].tail]
             cut == [moved EXCEPT ![reserve].tail = <<>>]
         IN  ReplaceReserved(Detach(cut, reserve), Tail(reserves), count + 1)

\* PageElement.get_content, lines 190-214: the copy it has worked on, the
\* nodes it keeps in self.reserve_elements and the text it returns.
get_content(element) ==
    LET denoised == RemoveNoise(element, _get_descendents(element, NoiseTags))
        reserves == _get_descendents(denoised, ReserveTags)
        element_copy == ReplaceReserved(denoised, reserves, 0)
    IN  [element_copy |-> element_copy,
         reserve_elements |-> reserves,
         content |-> trim(itertext(element_copy, 1))]

\* prepare_string_for_xml (calibre): the markup characters of a text become
\* entities, each one token of the markup.
xml_escape(text) ==
    [i \in DOMAIN text |->
        IF text[i] = "&" THEN "&amp;"
        ELSE IF text[i] = "<" THEN "&lt;"
        ELSE IF text[i] = ">" THEN "&gt;"
        ELSE text[i]]

\* The characters the pattern \w matches.
WordCharacters ==
    {"a", "b", "c", "l", "s", "t", "v", "w", "x", "y", "z", "_"}
        \cup {Digit(d) : d \in 0..9}

\* The repeats PageElement._polish_translation leaves of a letter (the
\* pattern ((\w)\2{3})\2* keeps its first group).
KeptRepeats == 4

\* translation.replace('\n', '<br />')
ReplaceNewlines(text) ==
    [i \in DOMAIN text |-> IF text[i] = "n" THEN "<br />" ELSE text[i]]

\* A variant of Condense that condenses the runs of every character.
RECURSIVE Condense_EveryCharacter(_)
Condense_EveryCharacter(text) ==
    IF text = <<>> THEN <<>>
    ELSE LET run == RunLen(text, Head(text))
         IN  IF run >= KeptRepeats
             THEN [i \in 1..KeptRepeats |-> Head(text)]
                      \o Condense_EveryCharacter(SubSeq(text, run + 1, Len(text)))
             ELSE <<Head(text)>> \o Condense_EveryCharacter(Tail(text))

\* re.sub(r'((\w)\2{3})\2*', r'\1', text): from left to right, a word
\* character followed by three or more copies of itself is replaced by four
\* of it.
RECURSIVE Condense(_)
Condense(text) ==
    IF text = <<>> THEN <<>>
    ELSE LET run == RunLen(text, Head(text))
         IN  IF Head(text) \in WordCharacters /\ run >= KeptRepeats
             THEN [i \in 1..KeptRepeats |-> Head(text)]
                      \o Condense(SubSeq(text, run + 1, Len(text)))
             ELSE <<Head(text)>> \o Condense(Tail(text))

\* PageElement._polish_translation, lines 216-219.
_polish_translation(translation) == Condense(ReplaceNewlines(translation))

\* The digits of an index joined by \s*, matched from position i of the
\* text: the position after the match, 0 when there is none.
RECURSIVE MatchIndex(_, _, _)
MatchIndex(text, i, digits) ==
    IF i > Len(text) \/ text[i] /= Head(digits) THEN 0
    ELSE IF Len(digits) = 1 THEN i + 1
    ELSE MatchIndex(text, i + 1 + BlankLen(SubSeq(text, i + 1, Len(text))),
                    Tail(digits))

\* placeholder[1].format(...): the decode pattern around the digits, matched
\* at the start of the text: the length of the match, 0 when there is none.
MatchPlaceholder(text, digits) ==
    IF text = <<>> \/ Head(text) /= "{" THEN 0
    ELSE LET after == MatchIndex(text, 2, digits)
         IN  IF after /= 0 /\ after <= Len(text) /\ text[after] = "}"
             THEN after ELSE 0

\* re.sub(pattern, lambda _: markup, text): every match is replaced by the
\* markup as it is.
RECURSIVE Substitute(_, _, _)
Substitute(text, digits, markup) ==
    IF text = <<>> THEN <<>>
    ELSE LET matched == MatchPlaceholder(text, digits)
         IN  IF matched /= 0
             THEN markup \o Substitute(SubSeq(text, matched + 1, Len(text)),
                                       digits, markup)
             ELSE <<Head(text)>> \o Substitute(Tail(text), digits, markup)

\* Lines 236-242: the placeholders of the reserved nodes are replaced one
\* index after the other, each by the markup of its node.
RECURSIVE SubstituteReserved(_, _, _, _)
SubstituteReserved(translation, element_copy, reserves, rid) ==
    IF reserves = <<>> THEN translation
    ELSE SubstituteReserved(
             Substitute(translation, Format05(rid),
                        get_string(element_copy, Head(reserves))),
             element_copy, Tail(reserves), rid + 1)

\* Lines 235-246: the markup the new element is parsed from.
TranslationMarkup(translation, element_copy, reserves) ==
    trim(_polish_translation(
        SubstituteReserved(xml_escape(translation), element_copy, reserves, 0)))

(***************************************************************************)
(* PageElement: placing the translation (add_translation, _create_table)   *)
(***************************************************************************)
\* round(x / 2) of Python 3: a half goes to the even neighbour.
RoundHalf(x) ==
    LET quotient == x \div 2
    IN  IF x % 2 = 0 \/ quotient % 2 = 0 THEN quotient ELSE quotient + 1

\* A variant of RoundHalf that drops the half.
CellWidth_Floor(value) == (100 - value) \div 2

\* round((100 - value) / 2), line 291.
CellWidth(value) == RoundHalf(100 - value)

\* '\xa0' * value
Spaces(value) == [i \in 1..value |-> "nbsp"]

\* None where an element is expected.
NoElement == [node |-> "None"]

\* PageElement._create_table, lines 276-307: the widths are percentages
\* (None: the cell has no width), padding is the text of the middle cell.
_create_table(position, original, translation, column_gap) ==
    LET cells ==
            IF column_gap = None
            THEN [width |-> <<45, 10, 45>>, padding |-> <<>>]
            ELSE IF column_gap[1] = "percentage"
            THEN [width |-> <<CellWidth(column_gap[2]), column_gap[2],
                              CellWidth(column_gap[2])>>,
                  padding |-> <<>>]
            ELSE [width |-> <<50, None, 50>>, padding |-> Spaces(column_gap[2])]
        new == IF translation = NoElement THEN <<>> ELSE <<translation>>
    IN  [node |-> "table", width |-> cells.width, padding |-> cells.padding,
         td_left |-> IF position = "left" THEN new
                     ELSE IF position = "right" THEN <<original>> ELSE <<>>,
         td_right |-> IF position = "left" THEN <<original>>
                      ELSE IF position = "right" THEN new ELSE <<>>]

\* The node of unit u among the children of its parent: its index in the
\* page, 0 when the node is no longer there.
IndexOf(page, u) ==
    LET at == {k \in DOMAIN page : page[k] = [node |-> "original", unit |-> u]}
    IN  IF at = {} THEN 0 ELSE CHOOSE k \in at : TRUE

\* element.addnext(new) and element.addprevious(new) of lxml; a node that has
\* left the page takes its new sibling with it.
addnext(page, u, new) ==
    LET k == IndexOf(page, u)
    IN  IF k = 0 THEN page
        ELSE SubSeq(page, 1, k) \o <<new>> \o SubSeq(page, k + 1, Len(page))

addprevious(page, u, new) ==
    LET k == IndexOf(page, u)
    IN  IF k = 0 THEN page
        ELSE SubSeq(page, 1, k - 1) \o <<new>> \o SubSeq(page, k, Len(page))

\* parent.remove(element)
remove(page, u) ==
    LET k == IndexOf(page, u)
    IN  SubSeq(page, 1, k - 1) \o SubSeq(page, k + 1, Len(page))

\* Lines 252-257: the attributes the new element takes from the original.
InheritedAttributes(attrib, position) ==
    [name \in (DOMAIN attrib) \ (IF position = "only" THEN {} ELSE {"id"}) |->
        IF name = "dir" THEN "auto" ELSE attrib[name]]

\* self._element_copy() as a cell of the table: the copy keeps the tail.
ElementCopy(page_element, u) ==
    [node |-> "copy", unit |-> u, tail |-> page_element.element[1].tail]

\* A variant of Deletes that never deletes for "only".
Deletes_SideBySideOnly(translation, position) == position \in {"left", "right"}

\* Lines 225-233 and 273-274: whether add_translation calls self.delete().
Deletes(translation, position) ==
    \/ position \in {"left", "right"}
    \/ translation /= None /\ position = "only"

\* A variant of Place that puts the new element after the original for
\* every position but left and right.
Place_AlwaysNext(page, u, new, table, position) ==
    IF position \in {"left", "right"} THEN addnext(page, u, table)
    ELSE addnext(page, u, new)

\* Lines 265-272: where the new element, or the table around it, goes.
Place(page, u, new, table, position) ==
    IF position \in {"left", "right"} THEN addnext(page, u, table)
    ELSE IF position = "above" THEN addprevious(page, u, new)
    ELSE addnext(page, u, new)

\* PageElement.add_translation, lines 221-274, with translation_lang and
\* the colours left at None: the page and the element afterwards, and
\* whether self.delete() found the element without a parent.
add_translation(page, page_element, u, translation, position, column_gap) ==
    LET new_element ==
            [node |-> "new", unit |-> u,
             name |-> page_element.element[1].tag,
             attrib |-> InheritedAttributes(page_element.attrib, position),
             markup |-> TranslationMarkup(translation,
                            page_element.element_copy,
                            page_element.reserve_elements)]
        cleared == IF translation = None THEN page_element
                   ELSE [page_element EXCEPT !.element[1].tail = <<>>]
        table == _create_table(position, ElementCopy(cleared, u),
                     IF translation = None THEN NoElement ELSE new_element,
                     column_gap)
        placed == IF translation = None
                  THEN IF position \in {"left", "right"}
                       THEN addnext(page, u, table) ELSE page
                  ELSE Place(page, u, new_element, table, position)
        gone == IndexOf(placed, u) = 0
    IN  IF ~Deletes(translation, position)
        THEN [page |-> placed, page_element |-> cleared, raised |-> FALSE]
        ELSE IF gone
        THEN [page |-> placed, page_element |-> cleared, raised |-> TRUE]
        ELSE [page |-> remove(placed, u), page_element |-> cleared,
              raised |-> FALSE]

(***************************************************************************)
(* The Element variants that wrap a record: add_translation                *)
(***************************************************************************)
\* text.strip('{}')
RECURSIVE StripBraces(_)
StripBraces(text) ==
    IF text /= <<>> /\ Head(text) \in {"{", "}"} THEN StripBraces(Tail(text))
    ELSE IF text /= <<>> /\ text[Len(text)] \in {"{", "}"}
    THEN StripBraces(SubSeq(text, 1, Len(text) - 1))
    ELSE text

\* A variant of SrtAddTranslation that puts the translation first for
\* every position but below.
SrtAddTranslation_BelowOnly(cue, text, pos) ==
    IF text = None THEN cue
    ELSE IF pos = "only" THEN [cue EXCEPT ![3] = text]
    ELSE IF pos = "below" THEN [cue EXCEPT ![3] = @ \o <<"n">> \o text]
    ELSE [cue EXCEPT ![3] = text \o <<"n">> \o @]

\* SrtElement.add_translation, lines 83-92, on the cue [index, timing, text].
SrtAddTranslation(cue, text, pos) ==
    IF text = None THEN cue
    ELSE IF pos = "only" THEN [cue EXCEPT ![3] = text]
    ELSE IF pos \in {"below", "right"}
    THEN [cue EXCEPT ![3] = @ \o <<"n">> \o text]
    ELSE [cue EXCEPT ![3] = text \o <<"n">> \o @]

\* PgnElement.add_translation, lines 108-118, on the pair [raw, translated].
PgnAddTranslation(pair, text, pos) ==
    IF text = None THEN pair
    ELSE IF pos = "only" THEN [pair EXCEPT ![2] = text]
    ELSE LET content == <<StripBraces(pair[1]), text>>
             ordered == IF pos \notin {"below", "right"}
                        THEN <<content[2], content[1]>> ELSE content
         IN  [pair EXCEPT ![2] = Join(ordered, <<" ", "|", " ">>)]

\* MetadataElement.add_translation, lines 136-147, on the item [content].
MetadataAddTranslation(item, text, pos) ==
    IF text = None THEN item
    ELSE IF pos = "only" THEN [item EXCEPT ![1] = text]
    ELSE IF pos \in {"above", "left"}
    THEN [item EXCEPT ![1] = text \o <<" ">> \o @]
    ELSE [item EXCEPT ![1] = @ \o <<" ">> \o text]

\* TocElement.add_translation, lines 160-166, on the TOC node [title].
TocAddTranslation(toc, text, pos) ==
    IF text = None THEN toc
    ELSE LET items == <<toc[1], text>>
         IN  [toc EXCEPT ![1] =
                 IF pos = "only" THEN items[2]
                 ELSE Join(IF pos \in {"above", "left"}
                           THEN <<items[2], items[1]>> ELSE items, <<" ">>)]

(***************************************************************************)
(* Extraction: the granularity of the units of a page                      *)
(***************************************************************************)
\* Line 374.
PriorityElements == {"p", "pre", "h1", "h2", "h3", "h4", "h5", "h6"}

\* "x is not None and trim(x) != ''" (lines 379 and 387).
NotEmpty(text) == trim(text) /= <<>>

\* A variant of element_has_content that does not look at the tails of the
\* children.
element_has_content_WithoutTails(tree, i) ==
    \/ NotEmpty(tree[i].text)
    \/ Children(tree, i) /= <<>> /\ tree[i].tag \in PriorityElements

\* Lines 378-389: the flag element_has_content of the visited child i.
element_has_content(tree, i) ==
    IF NotEmpty(tree[i].text) THEN TRUE
    ELSE LET children == Children(tree, i)
         IN  IF children /= <<>> /\ tree[i].tag \in PriorityElements
             THEN TRUE
             ELSE \E c \in 1..Len(children) : NotEmpty(tree[children[c]].tail)

\* Extraction.extract_elements(page_id, root, elements), lines 373-399: the
\* list elements is appended to in place, also by the inner calls, whose
\* return value is not used; elements is the list after the call, returned
\* is what the call returns.
RECURSIVE extract_elements(_, _, _)
RECURSIVE ExtractLoop(_, _, _)
\* A variant of ExtractLoop that also walks into the children it has made
\* units.
RECURSIVE ExtractLoop_IntoUnits(_, _, _)
ExtractLoop_IntoUnits(tree, children, elements) ==
    IF children = <<>> THEN elements
    ELSE LET child == Head(children)
             kept == IF element_has_content(tree, child)
                     THEN Append(elements, child)
                     ELSE elements
         IN  ExtractLoop_IntoUnits(tree, Tail(children),
                 extract_elements(tree, child, kept).elements)

extract_elements(tree, root, elements) ==
    LET after == ExtractLoop(tree, Children(tree, root), elements)
    IN  [elements |-> after,
         returned |-> IF after /= <<>> THEN after ELSE <<root>>]
ExtractLoop(tree, children, elements) ==
    IF children = <<>> THEN elements
    ELSE LET child == Head(children)
         IN  IF element_has_content(tree, child)
             THEN ExtractLoop(tree, Tail(children), Append(elements, child))
             ELSE ExtractLoop(tree, Tail(children),
                              extract_elements(tree, child, elements).elements)

\* utils.css: the path a selector compiles to; a selector of the model is a
\* tag name, and its path tests the element itself.
css(selector) == [self |-> selector]

\* load_element_patterns, lines 342-349: the selectors 'pre' and 'code' and
\* the user's element rules.
load_element_patterns(element_rules) ==
    LET rules == <<"pre", "code">> \o element_rules
    IN  [k \in 1..Len(rules) |-> css(rules[k])]

\* need_ignore, lines 367-371: the element matches one of the selectors.
need_ignore(element_patterns, tree, i) ==
    \E k \in 1..Len(element_patterns) : tree[i].tag = element_patterns[k].self

\* The characters of the default filter rule (line 330) among those of the
\* model: digits, whitespace and punctuation.
DefaultRuleCharacters == {"1", " ", "n", "&", "<", ">", "!"}

\* load_filter_patterns, lines 328-340: the default rule, then the user's
\* rules compiled by the rule mode (the rules of the model hold no regular
\* expression syntax, so a raw rule is a literal one).
load_filter_patterns(rule_mode, filter_rules) ==
    <<[flags |-> "default", rule |-> <<>>]>>
        \o [k \in 1..Len(filter_rules) |->
               [flags |-> IF rule_mode = "normal" THEN "re.I" ELSE "none",
                rule  |-> filter_rules[k]]]

\* Case folding of re.I on the letters of the model.
Lower(text) ==
    [k \in 1..Len(text) |-> IF text[k] = "A" THEN "a" ELSE text[k]]

\* part occurs in text.
Occurs(part, text) ==
    \E k \in 0..(Len(text) - Len(part)) : SubSeq(text, k + 1, k + Len(part)) = part

\* pattern.search(content)
search(pattern, content) ==
    IF pattern.flags = "default"
    THEN /\ content /= <<>>
         /\ \A k \in 1..Len(content) : content[k] \in DefaultRuleCharacters
    ELSE IF pattern.flags = "re.I"
    THEN Occurs(Lower(pattern.rule), Lower(content))
    ELSE Occurs(pattern.rule, content)

\* content.replace(entity, '')
Remove(content, entity) == Join(Split(content, entity), <<>>)

EntityLt == <<"&", "l", "t", ";">>
EntityGt == <<"&", "g", "t", ";">>

\* PageElement.get_text, lines 180-181.
get_text(tree, i) == trim(itertext(tree, i))

\* filter_content, lines 403-405: the unit is not retained.
Dropped(content) == content = <<>>

\* A variant of MarkupFiltered for which the scope does not matter.
MarkupFiltered_AnyScope(filter_scope, filter_patterns, markup) ==
    \E k \in 1..Len(filter_patterns) : search(filter_patterns[k], markup)

\* filter_content, lines 412-416: the rules are applied to the raw markup.
MarkupFiltered(filter_scope, filter_patterns, markup) ==
    /\ filter_scope = "html"
    /\ \E k \in 1..Len(filter_patterns) : search(filter_patterns[k], markup)

\* Extraction.filter_content, lines 401-417, on the unit of node i that
\* came out of extract_elements with the flag ignored: whether the unit is
\* retained, and its flag afterwards.
filter_content(filter_scope, filter_patterns, tree, i, ignored) ==
    LET content == get_text(tree, i)
        cleaned == Remove(Remove(content, EntityLt), EntityGt)
        by_text == \E k \in 1..Len(filter_patterns) :
                       search(filter_patterns[k], cleaned)
        by_markup == MarkupFiltered(filter_scope, filter_patterns,
                                    get_string(tree, i))
    IN  IF Dropped(content)
        THEN [retained |-> FALSE, ignored |-> ignored]
        ELSE [retained |-> TRUE, ignored |-> ignored \/ by_text \/ by_markup]

\* get_sorted_pages, lines 351-358: the pages with a parsed tree and a
\* markup name, in the order of their names (a page of the model has a
\* number for a name, and an empty data when it is left out).
RECURSIVE SortedByHref(_)
SortedByHref(pages) ==
    IF pages = {} THEN <<>>
    ELSE LET first == CHOOSE q \in pages : \A other \in pages : q.href <= other.href
         IN  <<first>> \o SortedByHref(pages \ {first})
get_sorted_pages(pages) ==
    SortedByHref({pages[k] : k \in {j \in 1..Len(pages) : pages[j].data /= <<>>}})

\* The units extract_elements makes of one page, lines 390-392 and 396-398:
\* each with the flag need_ignore gives it.
UnitsOfPage(element_patterns, one, found) ==
    [k \in 1..Len(found) |->
        [page |-> one.href, node |-> found[k],
         ignored |-> need_ignore(element_patterns, one.data, found[k])]]

\* The filter(...) of line 365.
RECURSIVE Filter(_, _, _, _)
Filter(filter_scope, filter_patterns, trees, found) ==
    IF found = <<>> THEN <<>>
    ELSE LET unit == Head(found)
             done == filter_content(filter_scope, filter_patterns,
                                    trees[unit.page], unit.node, unit.ignored)
         IN  (IF done.retained
              THEN <<[unit EXCEPT !.ignored = done.ignored]>>
              ELSE <<>>)
                 \o Filter(filter_scope, filter_patterns, trees, Tail(found))

\* The loop of get_elements, lines 362-364.
RECURSIVE ExtractPages(_, _)
ExtractPages(element_patterns, sorted) ==
    IF sorted = <<>> THEN <<>>
    ELSE UnitsOfPage(element_patterns, Head(sorted),
                     extract_elements(Head(sorted).data, 1, <<>>).returned)
             \o ExtractPages(element_patterns, Tail(sorted))

\* Extraction.get_elements, lines 360-365, of an Extraction object: the
\* units before the filter and the units it returns.
get_elements(self) ==
    LET sorted == get_sorted_pages(self.pages)
        trees == [h \in {sorted[k].href : k \in 1..Len(sorted)} |->
                     (CHOOSE q \in {sorted[k] : k \in 1..Len(sorted)} :
                          q.href = h).data]
        found == ExtractPages(self.element_patterns, sorted)
    IN  [elements |-> found,
         returned |-> Filter(self.filter_scope, self.filter_patterns,
                             trees, found)]

(***************************************************************************)
(* get_toc_elements: the units of a table of contents                      *)
(***************************************************************************)
\* A table of contents is a sequence of nodes in pre-order, each with the
\* index of the node it is nested in (0: a node of toc.nodes itself).
\* node.nodes of node p; the nodes handed to a top-level call when p is 0.
NestedNodes(toc, p) == KeysInOrder({i \in DOMAIN toc : toc[i].parent = p})

\* TocElement(node, 'toc.ncx') for node i of the table of contents of the
\* call numbered number.
TocUnit(number, i) == [toc |-> number, node |-> i]

\* get_toc_elements(nodes, elements), lines 600-606: elements is appended to
\* in place, so what is returned is the list that was handed in, grown.
RECURSIVE get_toc_elements(_, _, _, _)
get_toc_elements(toc, number, nodes, elements) ==
    IF nodes = <<>> THEN elements
    ELSE LET node == Head(nodes)
             appended == Append(elements, TocUnit(number, node))
             deeper == IF Len(NestedNodes(toc, node)) > 0
                       THEN get_toc_elements(toc, number,
                                             NestedNodes(toc, node), appended)
                       ELSE appended
         IN  get_toc_elements(toc, number, Tail(nodes), deeper)

(***************************************************************************)
(* State                                                                   *)
(***************************************************************************)
VARIABLES
    kind,          \* "single": ElementHandler, "merge": ElementHandlerMerge
    position,      \* handler.position
    merge_length,  \* handler.merge_length
    units,         \* the elements handed to prepare_original, in order
    elements,      \* handler.elements: pending key -> index of the unit
    originals,     \* handler.originals: the Original records
    paragraphs,    \* the Paragraph records handed back to the handler
    aligned,       \* the pairs returned by the last align_paragraph call
    translations,  \* the lookup built by the last prepare_translation call
    nodes,         \* the document: what became of each element's node
    calls,         \* the add_translation calls of the last add_translations
    rounds,        \* how many times add_translations has been called
    failed,        \* an exception left add_translations
    pc,            \* where the caller is in the handler's life cycle
    page,          \* the children of the parent of the page's units
    page_elements, \* the PageElement objects of the page, in extraction order
    column_gap,    \* element.column_gap, as the handler sets it
    table,         \* the table returned by the last _create_table call
    translation,   \* the text handed to the operation under study
    given,         \* what the operation under study was first handed
    element,       \* the record a non-page Element wraps
    handed,        \* the paragraph lists handed to add_translations so far
    body,          \* the tree below the body of the page being extracted
    extracted,     \* the nodes extract_elements returned as units
    extractor,     \* the Extraction object: its pages and its rules
    filtered,      \* the units get_elements returned
    default_elements, \* the list object behind "elements=[]" of get_toc_elements
    toc_calls,     \* the top-level get_toc_elements calls made so far
    cancelled,     \* trans_worker.cancelled
    on_working,    \* the dialog's on_working flag
    worker,        \* where the worker thread is in translate_paragraphs
    translate_queue, \* the translate signals queued for the worker thread
    gui_queue,     \* the worker's signals queued for the GUI thread
    gui,           \* where the GUI thread is: idle, or inside alert.ask
    signals,       \* the signals the worker has emitted, in order
    lambda_thread, \* the thread that runs the slot connected in line 124
    stop_enabled   \* the Stop button accepts a click

\* The state of the handlers, and the state of what is studied apart from
\* them.
handling == <<kind, position, merge_length, units, elements, originals,
              paragraphs, aligned, translations, nodes, calls, rounds, failed>>
apart == <<page, page_elements, column_gap, table, translation, given,
           element, handed, body, extracted>>

\* The state of an extraction run and of the TOC walk, and the state of the
\* translation worker and the dialog.
gathering == <<extractor, filtered, default_elements, toc_calls>>
threads == <<cancelled, on_working, worker, translate_queue, gui_queue, gui,
             signals, lambda_thread, stop_enabled>>
others == <<gathering, threads>>

vars == <<handling, pc, apart, others>>

\* A variable the specification at hand does not use.
Unused == <<>>

NothingGathered ==
    /\ extractor = Unused
    /\ filtered = Unused
    /\ default_elements = Unused
    /\ toc_calls = Unused

NoThreads ==
    /\ cancelled = Unused
    /\ on_working = Unused
    /\ worker = Unused
    /\ translate_queue = Unused
    /\ gui_queue = Unused
    /\ gui = Unused
    /\ signals = Unused
    /\ lambda_thread = Unused
    /\ stop_enabled = Unused

NothingElse == NothingGathered /\ NoThreads

\* Nothing is studied apart from the handlers.
NothingOnPage ==
    /\ page = Unused
    /\ page_elements = Unused
    /\ column_gap = Unused
    /\ table = Unused
    /\ translation = Unused
    /\ given = Unused
    /\ element = Unused
    /\ handed = Unused
    /\ body = Unused
    /\ extracted = Unused

NothingApart == NothingOnPage /\ NothingElse

NoHandler ==
    /\ kind = Unused
    /\ merge_length = Unused
    /\ units = Unused
    /\ elements = Unused
    /\ originals = Unused
    /\ paragraphs = Unused
    /\ aligned = Unused
    /\ translations = Unused
    /\ nodes = Unused

\* What add_translations and add_translation work on.
reinsertion == <<paragraphs, aligned, translations, nodes, calls, rounds, failed>>

Positions == {"above", "below", "left", "right", "only"}

\* The set of texts made of at most k pieces.
RECURSIVE Concats(_, _)
Concats(pieces, k) ==
    IF k = 0 THEN {<<>>}
    ELSE LET shorter == Concats(pieces, k - 1)
         IN  shorter \cup {s \o p : s \in shorter, p \in pieces}

(***************************************************************************)
(* SpecAlign: align_paragraph applied to one paragraph                     *)
(***************************************************************************)
MaxOrigPieces == 4
MaxTrPieces == 5

\* What an original text is made of: content, separators, legacy placeholders.
OrigPieces == {<<"a">>, <<"n", "n">>, <<"P">>}

\* What a translated text is made of: content, separators, single newlines.
TrPieces == {<<"x">>, <<"n", "n">>}

\* Translated texts with single and tripled newlines.
OddTranslations ==
    {<<"x", "n", "x">>, <<"x", "n", "n", "n", "x">>,
     <<"x", "n", "n", "x", "n", "n", "n", "x", "x">>}

AlignOriginals == Concats(OrigPieces, MaxOrigPieces)
AlignTranslations == Concats(TrPieces, MaxTrPieces) \cup OddTranslations \cup {None}

InitAlign ==
    /\ kind = "merge"
    /\ position \in Positions
    /\ merge_length = 0
    /\ units = <<>>
    /\ elements = <<>>
    /\ originals = <<>>
    /\ \E o \in AlignOriginals, t \in AlignTranslations :
           paragraphs = <<Paragraph(o, t)>>
    /\ aligned = <<>>
    /\ translations = <<>>
    /\ nodes = <<>>
    /\ calls = <<>>
    /\ rounds = 0
    /\ failed = FALSE
    /\ pc = "align"
    /\ NothingApart

\* handler.align_paragraph(paragraph): returns the pairs and leaves the
\* paragraph rewritten (lines 528-532).
AlignParagraph ==
    /\ pc = "align"
    /\ aligned' = align_paragraph(paragraphs[1], position, separator)
    /\ paragraphs' = <<NormalizeParagraph(paragraphs[1], separator)>>
    /\ pc' = "aligned"
    /\ UNCHANGED <<kind, position, merge_length, units, elements, originals,
                   translations, nodes, calls, rounds, failed>>
    /\ UNCHANGED <<apart, others>>

NextAlign == AlignParagraph

SpecAlign == InitAlign /\ [][NextAlign]_vars

(***************************************************************************)
(* SpecPrepare: prepare_original on a fresh handler                        *)
(***************************************************************************)
MaxUnits == 3
MaxMergeLength == 10

\* The elements an extraction can hand over: markup and translatable text.
UnitKinds ==
    {Unit(<<"<", "a", ">">>, <<"a">>, ig) : ig \in BOOLEAN}
        \cup {Unit(<<"<", "b", "b", ">">>, <<"b", "b">>, ig) : ig \in BOOLEAN}

\* The lists of at most k elements.
RECURSIVE UnitLists(_)
UnitLists(k) ==
    IF k = 0 THEN {<<>>}
    ELSE LET shorter == UnitLists(k - 1)
         IN  shorter \cup {Append(us, u) : us \in shorter, u \in UnitKinds}

\* A node of the document before any reinsertion.
FreshNode == [attached |-> TRUE, applied |-> 0, removed |-> 0,
              table |-> FALSE, inserted |-> <<>>]

\* A handler as get_element_handler builds it (merge_length is 0 for the
\* single-unit handler), and the elements it is about to be given.
InitHandler(lengths, most) ==
    /\ kind \in {"single", "merge"}
    /\ position \in Positions
    /\ merge_length \in (IF kind = "merge" THEN lengths ELSE {0})
    /\ units \in UnitLists(most)
    /\ elements = <<>>
    /\ originals = <<>>
    /\ paragraphs = <<>>
    /\ aligned = <<>>
    /\ translations = <<>>
    /\ nodes = [i \in 1..Len(units) |-> FreshNode]
    /\ calls = <<>>
    /\ rounds = 0
    /\ failed = FALSE
    /\ pc = "new"
    /\ NothingApart

\* ElementHandler.prepare_original(elements)
SinglePrepareOriginal ==
    /\ pc = "new"
    /\ kind = "single"
    /\ LET done == SinglePrepareLoop(units, 0, 0, elements, originals)
       IN  /\ elements' = done.elements
           /\ originals' = done.originals
    /\ pc' = "prepared"
    /\ UNCHANGED <<kind, position, merge_length, units, reinsertion>>
    /\ UNCHANGED <<apart, others>>

\* ElementHandlerMerge.prepare_original(elements)
MergePrepareOriginal ==
    /\ pc = "new"
    /\ kind = "merge"
    /\ LET done == MergePrepareLoop(units, 0, <<>>, <<>>, 0, elements,
                                    originals, separator, merge_length)
       IN  /\ elements' = done.elements
           /\ originals' = done.originals
    /\ pc' = "prepared"
    /\ UNCHANGED <<kind, position, merge_length, units, reinsertion>>
    /\ UNCHANGED <<apart, others>>

InitPrepare == InitHandler(0..MaxMergeLength, MaxUnits)

NextPrepare == SinglePrepareOriginal \/ MergePrepareOriginal

SpecPrepare == InitPrepare /\ [][NextPrepare]_vars

(***************************************************************************)
(* SpecFingerprint: prepare_original on lists long enough for two-digit    *)
(* sequence indexes                                                        *)
(***************************************************************************)
MaxFingerprintUnits == 11

\* Active elements whose text may start with a digit.
DigitUnitKinds ==
    {Unit(<<"<", "a", ">">>, <<"a">>, FALSE),
     Unit(<<"<", "0", "a", ">">>, <<"0", "a">>, FALSE)}

RECURSIVE DigitUnitLists(_)
DigitUnitLists(k) ==
    IF k = 0 THEN {<<>>}
    ELSE LET shorter == DigitUnitLists(k - 1)
         IN  shorter \cup {Append(us, u) : us \in shorter, u \in DigitUnitKinds}

\* A handler that keeps every element in a record of its own
\* (merge_length 0), about to be given up to MaxFingerprintUnits elements.
InitFingerprint ==
    /\ kind \in {"single", "merge"}
    /\ position = "below"
    /\ merge_length = 0
    /\ units \in DigitUnitLists(MaxFingerprintUnits)
    /\ elements = <<>>
    /\ originals = <<>>
    /\ paragraphs = <<>>
    /\ aligned = <<>>
    /\ translations = <<>>
    /\ nodes = [i \in 1..Len(units) |-> FreshNode]
    /\ calls = <<>>
    /\ rounds = 0
    /\ failed = FALSE
    /\ pc = "new"
    /\ NothingApart

SpecFingerprint == InitFingerprint /\ [][NextPrepare]_vars

(***************************************************************************)
(* Spec: a handler from prepare_original to repeated add_translations      *)
(***************************************************************************)
MaxHandledUnits == 2
MaxTrSegs == 3
MaxRounds == 2

\* No paragraph comes back for a record.
Absent == <<"<absent>">>

TrLetters == <<"x", "y", "z", "w", "v">>

\* A translated text of k segments, all different.
TrText(k) == Join([j \in 1..k |-> <<TrLetters[j]>>], separator)

\* What may come back for one record: nothing, a paragraph without
\* translation, or a translation of 0..MaxTrSegs segments.
TrChoices == {Absent, None} \cup {TrText(k) : k \in 0..MaxTrSegs}

\* Records of ignored elements are not sent to the engine.
ChoicesFor(record) == IF record.ignored THEN {Absent, None} ELSE TrChoices

\* The paragraphs of the records for which something came back, in order.
RECURSIVE ParagraphsOf(_, _, _)
ParagraphsOf(records, choice, i) ==
    IF i > Len(records) THEN <<>>
    ELSE (IF choice[i] = Absent
          THEN <<>>
          ELSE <<Paragraph(records[i].content, choice[i])>>)
             \o ParagraphsOf(records, choice, i + 1)

Init == InitHandler({0, MaxMergeLength}, MaxHandledUnits)

\* The caller has the records translated and keeps the resulting paragraphs.
Translate ==
    /\ pc = "prepared"
    /\ \E choice \in [1..Len(originals) -> TrChoices] :
           /\ \A i \in 1..Len(originals) : choice[i] \in ChoicesFor(originals[i])
           /\ paragraphs' = ParagraphsOf(originals, choice, 1)
    /\ pc' = "translated"
    /\ UNCHANGED <<kind, position, merge_length, units, elements, originals,
                   aligned, translations, nodes, calls, rounds, failed>>
    /\ UNCHANGED <<apart, others>>

\* handler.add_translations(paragraphs), of either handler: builds the
\* lookup (the merge handler realigns every paragraph, rewriting it in
\* place), then runs the loop over the pending elements.
AddTranslations ==
    /\ pc = "translated"
    /\ rounds < MaxRounds
    /\ ~failed
    /\ LET lookup == IF kind = "merge"
                     THEN MergePrepareTranslation(paragraphs, position, separator)
                     ELSE SinglePrepareTranslation(paragraphs)
           done == AddTranslationsLoop(KeysInOrder(DOMAIN elements), units,
                       position, lookup, elements, nodes, <<>>)
       IN  /\ translations' = lookup
           /\ aligned' = IF kind = "merge"
                         THEN AlignAll(paragraphs, position, separator)
                         ELSE aligned
           /\ paragraphs' = IF kind = "merge"
                            THEN [i \in 1..Len(paragraphs) |->
                                     NormalizeParagraph(paragraphs[i], separator)]
                            ELSE paragraphs
           /\ elements' = done.elements
           /\ nodes' = done.nodes
           /\ calls' = done.calls
           /\ failed' = done.failed
    /\ rounds' = rounds + 1
    /\ UNCHANGED <<kind, position, merge_length, units, originals, pc>>
    /\ UNCHANGED <<apart, others>>

Next ==
    \/ SinglePrepareOriginal
    \/ MergePrepareOriginal
    \/ Translate
    \/ AddTranslations

Spec == Init /\ [][Next]_vars

(***************************************************************************)
(* SpecPage: get_content and add_translation on the units of one page      *)
(***************************************************************************)
MaxNodes == 3

\* What a unit may hold: a code span (with a long run of one letter, or
\* empty), an image, a superscript and a bold span, with or without a tail.
ChildKinds ==
    {Node("code", <<"a", "a", "a", "a", "a">>, <<"b">>, 0),
     Node("code", <<>>, <<>>, 0),
     Node("img", <<>>, <<"b">>, 0),
     Node("sup", <<"s">>, <<"b">>, 0),
     Node("b", <<"c">>, <<>>, 0)}

\* The tags whose nodes have children.
Containers == {"p", "code", "sup", "b"}

\* The nodes a node appended to the tree may be a child of: the last node
\* and its ancestors.
RECURSIVE Spine(_, _)
Spine(tree, i) == IF i = 0 THEN {} ELSE {i} \cup Spine(tree, tree[i].parent)

\* The trees of n nodes below a paragraph with text.
RECURSIVE Trees(_)
Trees(n) ==
    IF n = 1 THEN {<<Node("p", <<"a">>, tail, 0)>> : tail \in {<<>>, <<"t">>}}
    ELSE UNION {{Append(tree, [child EXCEPT !.parent = parent]) :
                    child \in ChildKinds,
                    parent \in {i \in Spine(tree, Len(tree)) :
                                    tree[i].tag \in Containers}} :
                tree \in Trees(n - 1)}

\* The lists of trees of at most n nodes together.
RECURSIVE TreeLists(_)
TreeLists(n) ==
    {<<>>} \cup UNION {{<<tree>> \o rest : tree \in Trees(k),
                                           rest \in TreeLists(n - k)} :
                       k \in 1..n}

\* The attributes of every unit of the page.
Attributes == [id |-> "i", dir |-> "rtl", class |-> "c"]

\* A PageElement as Extraction builds it (element_copy: the copy the last
\* get_content call worked on, empty before the first call).
PageElement(tree) ==
    [element |-> tree, attrib |-> Attributes,
     reserve_elements |-> <<>>, element_copy |-> <<>>]

ColumnGaps == {None, <<"percentage", 5>>, <<"fixed", 2>>}

InitPage ==
    /\ NoHandler
    /\ position \in Positions
    /\ column_gap \in ColumnGaps
    /\ \E trees \in TreeLists(MaxNodes) \ {<<>>} :
           /\ page_elements = [u \in DOMAIN trees |-> PageElement(trees[u])]
           /\ page = [u \in DOMAIN trees |-> [node |-> "original", unit |-> u]]
    /\ calls = <<>>
    /\ rounds = 0
    /\ failed = FALSE
    /\ pc = "page"
    /\ table = Unused
    /\ translation = Unused
    /\ given = Unused
    /\ element = Unused
    /\ handed = Unused
    /\ body = Unused
    /\ extracted = Unused
    /\ NothingElse

\* The unit add_translations is at: the units are visited in extraction
\* order.
Current == Len(calls) + 1

\* original = element.get_content(), line 482.
GetContent ==
    /\ pc = "page"
    /\ Current <= Len(page_elements)
    /\ page_elements[Current].element_copy = <<>>
    /\ LET got == get_content(page_elements[Current].element)
       IN  page_elements' =
               [page_elements EXCEPT
                   ![Current].reserve_elements = got.reserve_elements,
                   ![Current].element_copy = got.element_copy]
    /\ UNCHANGED <<handling, pc, page, column_gap, table, translation, given,
                   element, handed, body, extracted>>
    /\ UNCHANGED others

\* The texts that may come back for a content: none, the content as it
\* is, and the content behind a translated line.
TranslationsOf(content) == {None, content, <<"x", "n">> \o content}

\* element.add_translation(translation, self.position, ...), lines 479-489.
AddTranslationToPage ==
    /\ pc = "page"
    /\ Current <= Len(page_elements)
    /\ page_elements[Current].element_copy /= <<>>
    /\ ~failed
    /\ \E text \in TranslationsOf(
                       get_content(page_elements[Current].element).content) :
           LET done == add_translation(page, page_elements[Current], Current,
                                       text, position, column_gap)
           IN  /\ page' = done.page
               /\ page_elements' =
                      [page_elements EXCEPT ![Current] = done.page_element]
               /\ failed' = done.raised
               /\ calls' = Append(calls, <<Current, text>>)
    /\ UNCHANGED <<kind, position, merge_length, units, elements, originals,
                   paragraphs, aligned, translations, nodes, rounds, pc,
                   column_gap, table, translation, given, element, handed,
                   body, extracted>>
    /\ UNCHANGED others

NextPage == GetContent \/ AddTranslationToPage

SpecPage == InitPage /\ [][NextPage]_vars

(***************************************************************************)
(* SpecPolish: _polish_translation applied to a text, twice                *)
(***************************************************************************)
MaxPolishPieces == 4

\* What a translation is made of: letters alone and in a run of four,
\* a run of five exclamation marks, a newline.
PolishPieces ==
    {<<"l">>, <<"l", "l", "l", "l">>, <<"x">>, <<"n">>,
     <<"!", "!", "!", "!", "!">>}

InitPolish ==
    /\ NoHandler
    /\ position = Unused
    /\ calls = Unused
    /\ failed = FALSE
    /\ rounds = 0
    /\ pc = "polish"
    /\ translation \in Concats(PolishPieces, MaxPolishPieces)
    /\ given = translation
    /\ page = Unused
    /\ page_elements = Unused
    /\ column_gap = Unused
    /\ table = Unused
    /\ element = Unused
    /\ handed = Unused
    /\ body = Unused
    /\ extracted = Unused
    /\ NothingElse

\* translation = self._polish_translation(translation), line 243; rounds
\* counts the applications.
Polish ==
    /\ pc = "polish"
    /\ rounds < 2
    /\ translation' = _polish_translation(translation)
    /\ rounds' = rounds + 1
    /\ UNCHANGED <<kind, position, merge_length, units, elements, originals,
                   paragraphs, aligned, translations, nodes, calls, failed,
                   pc, page, page_elements, column_gap, table, given,
                   element, handed, body, extracted>>
    /\ UNCHANGED others

NextPolish == Polish

SpecPolish == InitPolish /\ [][NextPolish]_vars

(***************************************************************************)
(* SpecTable: _create_table for every column gap                           *)
(***************************************************************************)
MaxPercentage == 100
MaxFixedGap == 3

\* element.column_gap as get_element_handler hands it down: none, a
\* percentage, or a number of spaces.
TableColumnGaps ==
    {None} \cup {<<"percentage", g>> : g \in 0..MaxPercentage}
           \cup {<<"fixed", v>> : v \in 0..MaxFixedGap}

InitTable ==
    /\ NoHandler
    /\ position \in {"left", "right"}
    /\ calls = Unused
    /\ failed = FALSE
    /\ rounds = 0
    /\ pc = "table"
    /\ column_gap \in TableColumnGaps
    /\ translation \in {None, <<"x">>}
    /\ table = Unused
    /\ given = Unused
    /\ page = Unused
    /\ page_elements = Unused
    /\ element = Unused
    /\ handed = Unused
    /\ body = Unused
    /\ extracted = Unused
    /\ NothingElse

\* self._create_table(position, self._element_copy(), new_element), lines
\* 228 and 268, for the first unit of a page.
CreateTable ==
    /\ pc = "table"
    /\ table' = _create_table(position,
                    [node |-> "copy", unit |-> 1, tail |-> <<>>],
                    IF translation = None THEN NoElement
                    ELSE [node |-> "new", unit |-> 1, name |-> "p",
                          attrib |-> InheritedAttributes(Attributes, position),
                          markup |-> translation],
                    column_gap)
    /\ pc' = "built"
    /\ UNCHANGED <<handling, page, page_elements, column_gap, translation,
                   given, element, handed, body, extracted>>
    /\ UNCHANGED others

NextTable == CreateTable

SpecTable == InitTable /\ [][NextTable]_vars

(***************************************************************************)
(* SpecVariants: add_translation on a subtitle cue, a chess annotation,    *)
(* a metadata item and a TOC node                                          *)
(***************************************************************************)
MaxTextLen == 2

\* The texts a record may hold.
Texts == Concats({<<"a">>, <<"b">>}, MaxTextLen) \ {<<>>}

\* The records the four variants wrap, each under the name of its class: a
\* cue [index, timing, text], an annotation [raw, translated], the content
\* of a metadata item and the title of a TOC node.
VariantElements ==
    {[class |-> "SrtElement", element |-> <<(<<"1">>), <<"0", "0">>, text>>] :
         text \in Texts}
    \cup {[class |-> "PgnElement",
           element |-> <<(<<"{">> \o text \o <<"}">>), None>>] : text \in Texts}
    \cup {[class |-> "MetadataElement", element |-> <<text>>] : text \in Texts}
    \cup {[class |-> "TocElement", element |-> <<text>>] : text \in Texts}

InitVariants ==
    /\ NoHandler
    /\ position \in Positions
    /\ calls = Unused
    /\ failed = FALSE
    /\ rounds = 0
    /\ pc = "variant"
    /\ element \in VariantElements
    /\ given = element
    /\ translation \in {None, <<"x">>, <<"x", "n", "y">>}
    /\ page = Unused
    /\ page_elements = Unused
    /\ column_gap = Unused
    /\ table = Unused
    /\ handed = Unused
    /\ body = Unused
    /\ extracted = Unused
    /\ NothingElse

\* element.add_translation(translation, position), of the element's class.
VariantAddTranslation ==
    /\ pc = "variant"
    /\ element' =
           [element EXCEPT !.element =
               IF element.class = "SrtElement"
               THEN SrtAddTranslation(@, translation, position)
               ELSE IF element.class = "PgnElement"
               THEN PgnAddTranslation(@, translation, position)
               ELSE IF element.class = "MetadataElement"
               THEN MetadataAddTranslation(@, translation, position)
               ELSE TocAddTranslation(@, translation, position)]
    /\ pc' = "added"
    /\ UNCHANGED <<handling, page, page_elements, column_gap, table,
                   translation, given, handed, body, extracted>>
    /\ UNCHANGED others

NextVariants == VariantAddTranslation

SpecVariants == InitVariants /\ [][NextVariants]_vars

(***************************************************************************)
(* SpecPartial: the paragraphs handed to add_translations in two parts     *)
(***************************************************************************)
\* The items of a list at the picked indexes, in order.
RECURSIVE Pick(_, _)
Pick(list, picked) ==
    IF picked = {} THEN <<>>
    ELSE LET least == CHOOSE i \in picked : \A other \in picked : i <= other
         IN  <<list[least]>> \o Pick(list, picked \ {least})

InitPartial == Init

\* handler.add_translations(part): the caller hands over some of the
\* paragraphs it holds, and in a second call the others. handed keeps, for
\* each call, which paragraphs went in, the caller's paragraphs before the
\* call and the pending map after it.
AddTranslationsPartial ==
    /\ pc = "translated"
    /\ Len(handed) < 2
    /\ ~failed
    /\ \E picked \in SUBSET DOMAIN paragraphs :
           /\ Len(handed) = 1 => picked = (DOMAIN paragraphs) \ handed[1].picked
           /\ LET part == Pick(paragraphs, picked)
                  lookup == IF kind = "merge"
                            THEN MergePrepareTranslation(part, position, separator)
                            ELSE SinglePrepareTranslation(part)
                  done == AddTranslationsLoop(KeysInOrder(DOMAIN elements),
                              units, position, lookup, elements, nodes, <<>>)
              IN  /\ translations' = lookup
                  /\ aligned' = IF kind = "merge"
                                THEN AlignAll(part, position, separator)
                                ELSE aligned
                  /\ paragraphs' =
                         [i \in DOMAIN paragraphs |->
                             IF kind = "merge" /\ i \in picked
                             THEN NormalizeParagraph(paragraphs[i], separator)
                             ELSE paragraphs[i]]
                  /\ elements' = done.elements
                  /\ nodes' = done.nodes
                  /\ calls' = done.calls
                  /\ failed' = done.failed
                  /\ handed' = Append(handed,
                                      [picked |-> picked, all |-> paragraphs,
                                       elements |-> done.elements])
    /\ rounds' = rounds + 1
    /\ UNCHANGED <<kind, position, merge_length, units, originals, pc, page,
                   page_elements, column_gap, table, translation, given,
                   element, body, extracted>>
    /\ UNCHANGED others

NextPartial ==
    \/ SinglePrepareOriginal
    \/ MergePrepareOriginal
    \/ Translate
    \/ AddTranslationsPartial

SpecPartial == InitPartial /\ [][NextPartial]_vars

(***************************************************************************)
(* SpecExtract: extract_elements on the body of one page                   *)
(***************************************************************************)
MaxBodyNodes == 3

\* What may stand below the body: blocks and paragraphs without text, with
\* blank text or with text, followed by nothing, by blanks or by text.
BodyKinds ==
    {Node("div", <<>>, <<>>, 0),
     Node("div", <<" ">>, <<>>, 0),
     Node("div", <<"a">>, <<>>, 0),
     Node("div", <<>>, <<"t">>, 0),
     Node("div", <<>>, <<" ">>, 0),
     Node("p", <<>>, <<>>, 0),
     Node("p", <<>>, <<"t">>, 0),
     Node("p", <<"a">>, <<>>, 0)}

\* The trees of n nodes below a body.
RECURSIVE Bodies(_)
Bodies(n) ==
    IF n = 0 THEN {<<Node("body", <<>>, <<>>, 0)>>}
    ELSE UNION {{Append(tree, [child EXCEPT !.parent = parent]) :
                    child \in BodyKinds, parent \in Spine(tree, Len(tree))} :
                tree \in Bodies(n - 1)}

\* body = page.data.find('./x:body', namespaces=ns) of a sorted page.
InitExtract ==
    /\ NoHandler
    /\ position = Unused
    /\ calls = <<>>
    /\ rounds = 0
    /\ failed = FALSE
    /\ pc = "body"
    /\ page = Unused
    /\ page_elements = Unused
    /\ column_gap = Unused
    /\ table = Unused
    /\ translation = Unused
    /\ given = Unused
    /\ element = Unused
    /\ handed = Unused
    /\ body \in UNION {Bodies(n) : n \in 0..MaxBodyNodes}
    /\ extracted = Unused
    /\ NothingElse

\* self.extract_elements(page.id, body, []), line 364.
ExtractElements ==
    /\ pc = "body"
    /\ extracted' = extract_elements(body, 1, <<>>).returned
    /\ pc' = "extracted"
    /\ UNCHANGED <<handling, page, page_elements, column_gap, table,
                   translation, given, element, handed, body>>
    /\ UNCHANGED others

NextExtract == ExtractElements

SpecExtract == InitExtract /\ [][NextExtract]_vars

(***************************************************************************)
(* SpecGetElements: one get_elements run of an Extraction object           *)
(***************************************************************************)
MaxPageNodes == 2

\* What may stand below the body of a page: blocks with and without text,
\* paragraphs holding only an entity, an entity and a digit, a digit or
\* nothing, and preformatted text.
PageKinds ==
    {Node("div", <<"a">>, <<>>, 0),
     Node("div", <<"A">>, <<>>, 0),
     Node("div", <<>>, <<>>, 0),
     Node("p", EntityLt, <<>>, 0),
     Node("p", EntityLt \o <<"1">>, <<>>, 0),
     Node("p", <<"1">>, <<>>, 0),
     Node("p", <<>>, <<>>, 0),
     Node("pre", <<"a">>, <<>>, 0)}

\* The trees of n nodes below a body.
RECURSIVE PageBodies(_)
PageBodies(n) ==
    IF n = 0 THEN {<<Node("body", <<>>, <<>>, 0)>>}
    ELSE UNION {{Append(tree, [child EXCEPT !.parent = parent]) :
                    child \in PageKinds, parent \in Spine(tree, Len(tree))} :
                tree \in PageBodies(n - 1)}

\* The page lists of one or two pages with at most n nodes below their
\* bodies together, in either order of their names; a page may be a
\* resource without a tree.
PageLists(n) ==
    UNION {{<<[href |-> 1, data |-> tree]>> : tree \in PageBodies(k)} :
              k \in 0..n}
      \cup UNION {{<<[href |-> first, data |-> one],
                     [href |-> 3 - first, data |-> two]>> :
                      one \in PageBodies(split[1]) \cup {<<>>},
                      two \in PageBodies(split[2]), first \in {1, 2}} :
                  split \in {s \in (0..n) \X (0..n) : s[1] + s[2] <= n}}

\* The configurations: rule mode, filter scope, filter rules, element rules.
Configurations ==
    {<<"normal", "text", <<>>, <<>>>>,
     <<"normal", "text", <<<<"a">>>>, <<>>>>,
     <<"case", "text", <<<<"a">>>>, <<>>>>,
     <<"regex", "html", <<<<"a">>>>, <<>>>>,
     <<"case", "text", <<<<"<div>">>>>, <<>>>>,
     <<"case", "html", <<<<"<div>">>>>, <<>>>>,
     <<"case", "html", <<<<"l">>>>, <<"div">>>>,
     <<"normal", "html", <<>>, <<"div">>>>}

\* Extraction.__init__, lines 313-326.
Extraction(pages, rule_mode, filter_scope, filter_rules, element_rules) ==
    [pages |-> pages, rule_mode |-> rule_mode, filter_scope |-> filter_scope,
     filter_rules |-> filter_rules, element_rules |-> element_rules,
     filter_patterns |-> load_filter_patterns(rule_mode, filter_rules),
     element_patterns |-> load_element_patterns(element_rules)]

\* get_page_elements, lines 609-616: the Extraction object of the pages.
InitGetElements ==
    /\ NoHandler
    /\ position = Unused
    /\ calls = <<>>
    /\ rounds = 0
    /\ failed = FALSE
    /\ pc = "extraction"
    /\ page = Unused
    /\ page_elements = Unused
    /\ column_gap = Unused
    /\ table = Unused
    /\ translation = Unused
    /\ given = Unused
    /\ element = Unused
    /\ handed = Unused
    /\ body = Unused
    /\ extracted = <<>>
    /\ \E pages \in PageLists(MaxPageNodes), config \in Configurations :
           extractor = Extraction(pages, config[1], config[2], config[3],
                                  config[4])
    /\ filtered = <<>>
    /\ default_elements = Unused
    /\ toc_calls = Unused
    /\ NoThreads

\* extraction.get_elements(), line 617.
GetElements ==
    /\ pc = "extraction"
    /\ LET done == get_elements(extractor)
       IN  /\ extracted' = done.elements
           /\ filtered' = done.returned
    /\ pc' = "filtered"
    /\ UNCHANGED <<handling, page, page_elements, column_gap, table,
                   translation, given, element, handed, body>>
    /\ UNCHANGED <<extractor, default_elements, toc_calls, threads>>

NextGetElements == GetElements

SpecGetElements == InitGetElements /\ [][NextGetElements]_vars

(***************************************************************************)
(* SpecToc: top-level calls of get_toc_elements                            *)
(***************************************************************************)
MaxTocNodes == 3
MaxTocCalls == 2

\* The tables of contents of n nodes.
RECURSIVE Tocs(_)
Tocs(n) ==
    IF n = 0 THEN {<<>>}
    ELSE UNION {{Append(toc, [title |-> <<"t">>, parent |-> parent]) :
                    parent \in {0} \cup (IF toc = <<>> THEN {}
                                         ELSE Spine(toc, Len(toc)))} :
                toc \in Tocs(n - 1)}

\* The module has been loaded: the default value of the parameter elements
\* is one empty list (line 600).
InitToc ==
    /\ NoHandler
    /\ position = Unused
    /\ calls = <<>>
    /\ rounds = 0
    /\ failed = FALSE
    /\ pc = "toc"
    /\ NothingOnPage
    /\ extractor = Unused
    /\ filtered = Unused
    /\ default_elements = <<>>
    /\ toc_calls = <<>>
    /\ NoThreads

\* One top-level call, get_toc_elements(toc.nodes, []) or
\* get_toc_elements(toc.nodes): without the second argument the call works
\* on the list of the default value, which keeps what is appended.
GetTocElements ==
    /\ pc = "toc"
    /\ Len(toc_calls) < MaxTocCalls
    /\ \E toc \in UNION {Tocs(n) : n \in 0..MaxTocNodes}, explicit \in BOOLEAN :
           LET number == Len(toc_calls) + 1
               accumulator == IF explicit THEN <<>> ELSE default_elements
               returned == get_toc_elements(toc, number,
                                            NestedNodes(toc, 0), accumulator)
           IN  /\ toc_calls' = Append(toc_calls,
                                      [nodes |-> toc, explicit |-> explicit,
                                       returned |-> returned])
               /\ default_elements' = IF explicit THEN default_elements
                                      ELSE returned
    /\ UNCHANGED <<handling, pc, apart, extractor, filtered, threads>>

NextToc == GetTocElements

SpecToc == InitToc /\ [][NextToc]_vars

(***************************************************************************)
(* SpecWorker: the translation worker and the dialog that drives it        *)
(***************************************************************************)
MaxRuns == 2

\* A signal as it is emitted: by which run, which one, with which value.
Signal(run, name, value) == [run |-> run, signal |-> name, value |-> value]

\* The worker thread between two slots.
Idle == [at |-> "idle", run |-> 0]

\* The translate signals emitted so far.
Requested == Len(translate_queue) + (IF signals = <<>> THEN 0
                                     ELSE signals[Len(signals)].run)

\* AdvancedTranslation.__init__, lines 249-261 and 279-288: the worker is
\* made in the GUI thread and moved to its own; the slot of line 124 is a
\* plain function, run in the thread the binding gives it.
InitWorker ==
    /\ NoHandler
    /\ position = Unused
    /\ calls = <<>>
    /\ rounds = 0
    /\ failed = FALSE
    /\ pc = "dialog"
    /\ NothingOnPage
    /\ NothingGathered
    /\ cancelled = FALSE
    /\ on_working = FALSE
    /\ worker = Idle
    /\ translate_queue = <<>>
    /\ gui_queue = <<>>
    /\ gui = "idle"
    /\ signals = <<>>
    /\ lambda_thread \in {"worker", "gui"}
    /\ stop_enabled = TRUE

\* translate_selected_paragraph, lines 718-724: the GUI thread emits
\* translate; the buttons are in reach while the action widget is shown,
\* that is until start has been processed.
TranslateSelectedParagraph ==
    /\ pc = "dialog"
    /\ gui = "idle"
    /\ ~on_working
    /\ Requested < MaxRuns
    /\ translate_queue' = Append(translate_queue, Requested + 1)
    /\ UNCHANGED <<cancelled, on_working, worker, gui_queue, gui, signals,
                   lambda_thread, stop_enabled>>
    /\ UNCHANGED <<handling, pc, apart, gathering>>

\* translate_paragraphs, line 143: the worker thread takes the next
\* translate signal and emits start.
EmitStart ==
    /\ pc = "dialog"
    /\ worker.at = "idle"
    /\ translate_queue /= <<>>
    /\ worker' = [at |-> "setup", run |-> Head(translate_queue)]
    /\ translate_queue' = Tail(translate_queue)
    /\ signals' = Append(signals, Signal(Head(translate_queue), "start", FALSE))
    /\ gui_queue' = Append(gui_queue,
                           Signal(Head(translate_queue), "start", FALSE))
    /\ UNCHANGED <<cancelled, on_working, gui, lambda_thread, stop_enabled>>
    /\ UNCHANGED <<handling, pc, apart, gathering>>

\* translate_paragraphs, lines 144-152: the translator is set up, outside
\* the try statement; an exception raised here leaves the slot.
SetUpTranslation ==
    /\ worker.at = "setup"
    /\ \E raised \in BOOLEAN :
           worker' = IF raised THEN Idle ELSE [worker EXCEPT !.at = "handle"]
    /\ UNCHANGED <<cancelled, on_working, translate_queue, gui_queue, gui,
                   signals, lambda_thread, stop_enabled>>
    /\ UNCHANGED <<handling, pc, apart, gathering>>

\* What the emission of finished does at once: the slot of line 124 when it
\* runs in the worker thread.
AfterFinished == IF lambda_thread = "worker" THEN FALSE ELSE cancelled

\* translate_paragraphs, lines 153-162: translation.handle returns or
\* raises, and finished is emitted (after logging, streaming and error when
\* it raised).
Handle ==
    /\ worker.at = "handle"
    /\ \E raised \in BOOLEAN :
           LET run == worker.run
               emitted == IF raised
                          THEN <<Signal(run, "logging", FALSE),
                                 Signal(run, "streaming", FALSE),
                                 Signal(run, "streaming", FALSE),
                                 Signal(run, "error", FALSE),
                                 Signal(run, "finished", FALSE)>>
                          ELSE <<Signal(run, "finished", ~cancelled)>>
           IN  /\ signals' = signals \o emitted
               /\ gui_queue' = gui_queue
                      \o SelectSeq(emitted, LAMBDA s :
                             s.signal \in {"error", "finished"})
    /\ cancelled' = AfterFinished
    /\ worker' = [worker EXCEPT !.at = "emitted"]
    /\ UNCHANGED <<on_working, translate_queue, gui, lambda_thread,
                   stop_enabled>>
    /\ UNCHANGED <<handling, pc, apart, gathering>>

\* translate_paragraphs, line 163.
ResetCancelled ==
    /\ worker.at = "emitted"
    /\ cancelled' = FALSE
    /\ worker' = Idle
    /\ UNCHANGED <<on_working, translate_queue, gui_queue, gui, signals,
                   lambda_thread, stop_enabled>>
    /\ UNCHANGED <<handling, pc, apart, gathering>>

\* The GUI thread processes the next queued signal, between two events or
\* inside the event loop of alert.ask: working_status (line 280) on start;
\* on finished the slot of line 124 when it runs in the GUI thread,
\* working_finished (line 287) and terminate_finished (line 449).
ProcessSignal ==
    /\ pc = "dialog"
    /\ gui_queue /= <<>>
    /\ LET s == Head(gui_queue)
       IN  /\ on_working' = IF s.signal = "start" THEN TRUE
                            ELSE IF s.signal = "finished" THEN FALSE
                            ELSE on_working
           /\ cancelled' = IF s.signal = "finished" /\ lambda_thread = "gui"
                           THEN FALSE ELSE cancelled
           /\ stop_enabled' = IF s.signal = "finished" THEN TRUE
                              ELSE stop_enabled
    /\ gui_queue' = Tail(gui_queue)
    /\ UNCHANGED <<worker, translate_queue, gui, signals, lambda_thread>>
    /\ UNCHANGED <<handling, pc, apart, gathering>>

\* The Stop button (lines 443-447) or done (line 744) calls
\* terminate_translation, lines 734-741, which asks while on_working is set
\* and otherwise sets cancelled at once; done then closes the dialog.
TerminateTranslation ==
    /\ pc = "dialog"
    /\ gui = "idle"
    /\ \E caller \in {"stop", "done"} :
           /\ caller = "stop" => on_working /\ stop_enabled
           /\ IF on_working
              THEN /\ gui' = caller
                   /\ UNCHANGED <<cancelled, pc>>
              ELSE /\ cancelled' = TRUE
                   /\ pc' = "closed"
                   /\ UNCHANGED gui
    /\ UNCHANGED <<on_working, worker, translate_queue, gui_queue, signals,
                   lambda_thread, stop_enabled>>
    /\ UNCHANGED <<handling, apart, gathering>>

\* The user answers alert.ask, lines 736-741: on 'yes' cancelled is set and
\* the Stop button is disabled (line 445), or the dialog closes.
AnswerAsk ==
    /\ pc = "dialog"
    /\ gui \in {"stop", "done"}
    /\ \E action \in {"yes", "no"} :
           IF action = "yes"
           THEN /\ cancelled' = TRUE
                /\ stop_enabled' = IF gui = "stop" THEN FALSE ELSE stop_enabled
                /\ pc' = IF gui = "done" THEN "closed" ELSE pc
           ELSE UNCHANGED <<cancelled, stop_enabled, pc>>
    /\ gui' = "idle"
    /\ UNCHANGED <<on_working, worker, translate_queue, gui_queue, signals,
                   lambda_thread>>
    /\ UNCHANGED <<handling, apart, gathering>>

NextWorker ==
    \/ TranslateSelectedParagraph
    \/ EmitStart
    \/ SetUpTranslation
    \/ Handle
    \/ ResetCancelled
    \/ ProcessSignal
    \/ TerminateTranslation
    \/ AnswerAsk

SpecWorker == InitWorker /\ [][NextWorker]_vars

(***************************************************************************)
(* Claims on align_paragraph (checked under SpecAlign)                     *)
(***************************************************************************)
\* The paragraph align_paragraph was called on, as the call left it.
AlignedParagraph == paragraphs[1]

\* The segments of the record's original text.
AlignedOriginals == Split(Strip(AlignedParagraph.original), separator)

\* The translated segments the call worked on.
AlignedTranslations == TranslatedSegments(AlignedParagraph, separator)

\* C1: align_paragraph returns exactly m pairs, m the number of segments of
\* the record's original text, and the i-th pair carries the i-th original
\* segment, whatever the translation is (fewer, as many, more segments, an
\* empty text or None).
C1_OnePairPerOriginalSegment ==
    pc = "aligned" =>
        /\ Len(aligned) = Len(AlignedOriginals)
        /\ \A i \in 1..Len(aligned) : aligned[i][1] = AlignedOriginals[i]

\* C1 witness: three original segments aligned with an empty translation.
C1_Witness ==
    /\ pc = "aligned"
    /\ Len(AlignedOriginals) = 3
    /\ AlignedParagraph.translation = <<>>
    /\ Len(aligned) = 3

\* C2: with fewer translated segments than original ones (n < m): for left
\* and right the first n originals are paired positionally and the last m-n
\* get None; for every other position the n translated segments, joined by a
\* double newline, go to the first original (above) or to the last one
\* (below, only), and every other original gets None.
C2_FewerTranslations ==
    (/\ pc = "aligned"
     /\ AlignedParagraph.translation /= None
     /\ Len(AlignedTranslations) < Len(AlignedOriginals)) =>
        LET m == Len(AlignedOriginals)
            n == Len(AlignedTranslations)
            block == Join(AlignedTranslations, <<"n", "n">>)
            k == IF position = "above" THEN 1 ELSE m
        IN  /\ Len(aligned) = m
            /\ IF position \in {"left", "right"}
               THEN /\ \A i \in 1..n : aligned[i][2] = AlignedTranslations[i]
                    /\ \A i \in (n + 1)..m : aligned[i][2] = None
               ELSE /\ aligned[k][2] = block
                    /\ \A i \in (1..m) \ {k} : aligned[i][2] = None

\* C2 witness: position above, three originals, two translated segments.
C2_Witness ==
    /\ pc = "aligned"
    /\ position = "above"
    /\ AlignedParagraph.translation /= None
    /\ Len(AlignedOriginals) = 3
    /\ Len(AlignedTranslations) = 2
    /\ aligned[1][2] = <<"x", "n", "n", "x">>

\* C3: with more translated segments than original ones (n > m) the first
\* m-1 originals are paired positionally and the last original receives the
\* translated segments m..n joined by double newlines.
C3_MoreTranslations ==
    (/\ pc = "aligned"
     /\ AlignedParagraph.translation /= None
     /\ Len(AlignedTranslations) > Len(AlignedOriginals)) =>
        LET m == Len(AlignedOriginals)
            n == Len(AlignedTranslations)
        IN  /\ Len(aligned) = m
            /\ \A i \in 1..(m - 1) : aligned[i][2] = AlignedTranslations[i]
            /\ aligned[m][2] =
                   Join(SubSeq(AlignedTranslations, m, n), <<"n", "n">>)

\* C3 witness: two originals, three translated segments.
C3_Witness ==
    /\ pc = "aligned"
    /\ AlignedParagraph.translation /= None
    /\ Len(AlignedOriginals) = 2
    /\ Len(AlignedTranslations) = 3
    /\ aligned[2][2] = <<"x", "n", "n", "x">>


(***************************************************************************)
(* Claims on prepare_original (checked under SpecPrepare, SpecFingerprint) *)
(***************************************************************************)
\* The indexes of the elements that are not ignored, in extraction order.
ActiveUnits == SelectSeq([i \in 1..Len(units) |-> i],
                         LAMBDA i : ~units[i].ignored)

\* The texts of the active elements, in extraction order.
ActiveContents == [j \in 1..Len(ActiveUnits) |-> units[ActiveUnits[j]].content]

\* The texts merged into one batch record: its text cut at the separators
\* (the text ends with a separator, so the last piece is empty).
RecordUnits(record) ==
    LET parts == Split(record.content, separator)
    IN  SubSeq(parts, 1, Len(parts) - 1)

RECURSIVE Flatten(_)
Flatten(lists) ==
    IF lists = <<>> THEN <<>> ELSE Head(lists) \o Flatten(Tail(lists))

\* C5: joining the raw-markup fields of the batch records with the separator
\* gives the same text as joining the active elements' raw markup with the
\* separator.
C5_RawConcatenation ==
    (pc = "prepared" /\ kind = "merge"
        /\ \A i \in 1..Len(units) : ~units[i].ignored) =>
        Join([i \in 1..Len(originals) |-> originals[i].raw], separator)
            = Join([i \in 1..Len(units) |-> units[i].raw], separator)

\* C6: batching rule of the merge handler.  Every active element is in
\* exactly one record, in order; a record holding two or more elements has a
\* text shorter than merge_length; a record is closed only when the next
\* element would bring its text to merge_length or more; records carry the
\* indexes 0, 1, 2, ... and none is empty.
C6_BatchingRule ==
    (pc = "prepared" /\ kind = "merge") =>
        /\ Flatten([i \in 1..Len(originals) |-> RecordUnits(originals[i])])
               = ActiveContents
        /\ \A i \in 1..Len(originals) :
               /\ originals[i].oid = i - 1
               /\ originals[i].content /= <<>>
               /\ RecordUnits(originals[i]) /= <<>>
               /\ originals[i].content
                      = Join(RecordUnits(originals[i]), separator) \o separator
               /\ Len(RecordUnits(originals[i])) >= 2
                      => Len(originals[i].content) < merge_length
        /\ \A i \in 1..(Len(originals) - 1) :
               Len(originals[i].content
                       \o RecordUnits(originals[i + 1])[1] \o separator)
                   >= merge_length

\* C6 witness: three active elements in two records, the first holding two.
C6_Witness ==
    /\ pc = "prepared"
    /\ kind = "merge"
    /\ Len(ActiveUnits) = 3
    /\ Len(originals) = 2
    /\ Len(RecordUnits(originals[1])) = 2
    /\ originals[2].oid = 1

\* C9: after prepare_original on a fresh single-unit handler, originals
\* holds one record per element, in order, with the element's position as
\* index and the element's ignored flag; elements holds exactly the
\* non-ignored elements, each under a key of its own.
C9_SinglePrepareOriginal ==
    (pc = "prepared" /\ kind = "single") =>
        /\ Len(originals) = Len(units)
        /\ \A i \in 1..Len(originals) :
               /\ originals[i].oid = i - 1
               /\ originals[i].content = units[i].content
               /\ originals[i].raw = units[i].raw
               /\ originals[i].ignored = units[i].ignored
        /\ {elements[k] : k \in DOMAIN elements}
               = {i \in 1..Len(units) : ~units[i].ignored}
        /\ \A k1, k2 \in DOMAIN elements :
               elements[k1] = elements[k2] => k1 = k2
        /\ \A k1, k2 \in DOMAIN elements :
               k1 < k2 => elements[k1] < elements[k2]

\* C9 witness: two active elements with the same text and an ignored one.
C9_Witness ==
    /\ pc = "prepared"
    /\ kind = "single"
    /\ Len(units) = 3
    /\ units[1].content = units[3].content
    /\ ~units[1].ignored /\ units[2].ignored /\ ~units[3].ignored
    /\ DOMAIN elements = {0, 1}
    /\ elements[0] = 1 /\ elements[1] = 3

\* C10: two Original records whose (index, text) pairs differ have different
\* fingerprints (uid taken to be injective), in both handlers.
C10_FingerprintsDiffer ==
    pc = "prepared" =>
        \A i, j \in 1..Len(originals) :
            <<originals[i].oid, originals[i].content>>
                    /= <<originals[j].oid, originals[j].content>>
                => originals[i].md5 /= originals[j].md5


(***************************************************************************)
(* Claims on prepare_translation and add_translations (checked under Spec) *)
(***************************************************************************)
\* part occurs in text.
Contains(text, part) ==
    \E i \in 0..(Len(text) - Len(part)) :
        SubSeq(text, i + 1, i + Len(part)) = part

\* The elements still in the pending map.
Pending == {elements[k] : k \in DOMAIN elements}

\* C4: merge-mode realignment never discards translated text: every
\* non-empty translated segment of every record is contained in the value of
\* at least one entry of the lookup built by prepare_translation.
C4_NoTranslatedTextDiscarded ==
    (kind = "merge" /\ rounds >= 1) =>
        \A i \in 1..Len(paragraphs) :
            paragraphs[i].translation /= None =>
                \A j \in 1..Len(TranslatedSegments(paragraphs[i], separator)) :
                    LET segment == TranslatedSegments(paragraphs[i], separator)[j]
                    IN  segment /= <<>> =>
                            \E key \in DOMAIN translations :
                                /\ translations[key] /= None
                                /\ Contains(translations[key], segment)

\* C7: every element to which add_translations applied a translation or
\* None has left the pending map, so a second add_translations call with the
\* same paragraphs calls add_translation on no element, and no element is
\* reinserted more than once.
C7_SecondCallDoesNothing ==
    rounds = 2 =>
        /\ \A u \in 1..Len(units) : nodes[u].applied >= 1 => u \notin Pending
        /\ calls = <<>>
        /\ \A u \in 1..Len(units) : nodes[u].applied <= 1

\* C8: with either handler, every element handed to prepare_original that
\* ends up without a translation (ignored, or no translation for its text)
\* has add_translation(None, ...) called on it by add_translations, and so is
\* put in a table when the position is left or right.
C8_UntranslatedGetNone ==
    (rounds = 1 /\ ~failed) =>
        \A u \in 1..Len(units) :
            (units[u].ignored \/ Get(translations, units[u].content) = None) =>
                /\ nodes[u].applied >= 1
                /\ position \in {"left", "right"} => nodes[u].table

(***************************************************************************)
(* Claims on PageElement (checked under SpecPage)                          *)
(***************************************************************************)
\* The first position at which the part occurs in the text, 0 when it does
\* not occur.
FirstAt(text, part) ==
    LET at == {k \in 1..(Len(text) - Len(part) + 1) :
                   SubSeq(text, k, k + Len(part) - 1) = part}
    IN  IF at = {} THEN 0 ELSE CHOOSE k \in at : \A other \in at : k <= other

\* The parts occur in the text, each one starting no earlier than the one
\* before it.
InOrder(text, parts) ==
    /\ \A i \in DOMAIN parts : FirstAt(text, parts[i]) /= 0
    /\ \A i, j \in DOMAIN parts :
           i < j => FirstAt(text, parts[i]) <= FirstAt(text, parts[j])

\* The new elements made for unit u that are on the page, as a sibling of
\* the original or in a cell of a table.
NewElements(u) ==
    LET new == [node |-> "new", unit |-> u]
        IsNew(item) == item.node = "new" /\ item.unit = u
        InCell(cell) == {cell[k] : k \in {k \in DOMAIN cell : IsNew(cell[k])}}
    IN  UNION {IF page[k].node = "table"
               THEN InCell(page[k].td_left) \cup InCell(page[k].td_right)
               ELSE IF IsNew(page[k]) THEN {page[k]} ELSE {} :
               k \in DOMAIN page}

\* The reserved inline nodes of unit u that get_content reaches: those of
\* the tags it reserves, outside the decorations it removes first.
ReservedNodes(u) ==
    LET tree == page_elements[u].element
    IN  KeysInOrder({i \in DOMAIN tree :
            /\ IsUnder(tree, i, 1)
            /\ tree[i].tag \in ReserveTags \ NoiseTags
            /\ \A j \in DOMAIN tree :
                   IsUnder(tree, i, j) => tree[j].tag \notin NoiseTags})

\* The calls add_translation(content) made on unit u with the content
\* get_content returned for it, unmodified.
Unmodified(u) ==
    {c \in DOMAIN calls :
        /\ calls[c][1] = u
        /\ calls[c][2] = get_content(page_elements[u].element).content}

\* C11: get_content numbers the k reserved inline nodes of a unit 0..k-1 in
\* document order (nested ones included), and add_translation applied to the
\* unmodified content makes a new node that holds the markup of each of the
\* k reserved nodes, in their original order.
C11_PlaceholderRoundTrip ==
    \A u \in DOMAIN page_elements :
        LET page_element == page_elements[u]
            reserved == ReservedNodes(u)
        IN  /\ page_element.element_copy /= <<>> =>
                   page_element.reserve_elements = reserved
            /\ Unmodified(u) /= {} =>
                   \A new \in NewElements(u) :
                       InOrder(new.markup,
                               [i \in DOMAIN reserved |->
                                   get_string(page_element.element, reserved[i])])
\* The markup that stands for reserved node r of unit u when the loop of
\* lines 236-242 is over (the placeholders inside it substituted as well).
SubstitutedMarkup(u, r) ==
    SubstituteReserved(get_string(page_elements[u].element_copy, r),
                       page_elements[u].element_copy,
                       page_elements[u].reserve_elements, 0)

\* C12: whenever add_translation is given a translation, the markup it has
\* substituted for each placeholder is in the new node character for
\* character: nothing that runs after the substitution (the line-break
\* replacement, the collapsing of repeats, the trimming) changes it.
C12_ReservedMarkupUnchanged ==
    \A c \in DOMAIN calls :
        LET u == calls[c][1]
            reserves == page_elements[u].reserve_elements
        IN  calls[c][2] /= None =>
                \A new \in NewElements(u) :
                    \A i \in DOMAIN reserves :
                        Contains(new.markup, SubstitutedMarkup(u, reserves[i]))
\* What an item of the page is: which node of which unit, and for a table
\* what its left and right cells hold.
CellShape(cell) == [k \in DOMAIN cell |-> <<cell[k].node, cell[k].unit>>]
ItemShape(item) ==
    IF item.node = "table"
    THEN <<"table", CellShape(item.td_left), CellShape(item.td_right)>>
    ELSE <<item.node, item.unit>>

\* What the claim has in the place of the node of unit u once
\* add_translation has been given a translation for it.
PlacedFor(u) ==
    IF position = "only" THEN <<(<<"new", u>>)>>
    ELSE IF position = "above" THEN <<(<<"new", u>>), <<"original", u>>>>
    ELSE IF position = "below" THEN <<(<<"original", u>>), <<"new", u>>>>
    ELSE IF position = "left"
    THEN <<(<<"table", <<(<<"new", u>>)>>, <<(<<"copy", u>>)>>>>)>>
    ELSE <<(<<"table", <<(<<"copy", u>>)>>, <<(<<"new", u>>)>>>>)>>

\* add_translation has been called on the units before Current, each time
\* with a translation.
AllTranslated == \A c \in DOMAIN calls : calls[c][2] /= None

\* C14: when add_translation is given a translation for each unit of a page
\* in extraction order, the page holds, unit after unit in the order of the
\* originals: for only the new node in the place of the original; for above
\* the new node just before the original and for below just after it, the
\* original staying; for left a table in the place of the original with the
\* translation in its left cell and the original in its right cell, and for
\* right the reverse. The units not yet visited are where they were.
C14_PlacementByPosition ==
    AllTranslated =>
        [k \in DOMAIN page |-> ItemShape(page[k])] =
            Flatten([u \in DOMAIN page_elements |->
                        IF u < Current THEN PlacedFor(u)
                        ELSE <<(<<"original", u>>)>>])

\* Two units of one page have been given their translations, to be put
\* above them.
C14_Witness ==
    /\ position = "above"
    /\ Len(calls) >= 2
    /\ AllTranslated

\* C15: once add_translation has been called on a unit, the unit's node has
\* left its parent if and only if the position is left or right (with or
\* without a translation) or the position is only and a translation was
\* given; the nodes of the units not yet visited are in place, and no
\* removal was attempted on a node that had already been removed.
C15_RemovalOfOriginal ==
    /\ ~failed
    /\ \A u \in DOMAIN page_elements :
           IndexOf(page, u) = 0 <=>
               /\ u < Current
               /\ \/ position \in {"left", "right"}
                  \/ position = "only" /\ calls[u][2] /= None

\* Under the position only, one unit has been given no translation and
\* another one a translation.
C15_Witness ==
    /\ position = "only"
    /\ \E c \in DOMAIN calls : calls[c][2] = None
    /\ \E c \in DOMAIN calls : calls[c][2] /= None

(***************************************************************************)
(* Claims on _polish_translation (checked under SpecPolish)                *)
(***************************************************************************)
\* The runs of a text: each character with the number of times it is
\* repeated before another character comes.
RECURSIVE Runs(_)
Runs(text) ==
    IF text = <<>> THEN <<>>
    ELSE LET run == RunLen(text, Head(text))
         IN  <<<<Head(text), run>>>> \o Runs(SubSeq(text, run + 1, Len(text)))

\* The longest run of the text.
LongestRun(text) ==
    LET runs == Runs(text)
    IN  IF runs = <<>> THEN 0
        ELSE CHOOSE most \in {runs[i][2] : i \in DOMAIN runs} :
                 \A i \in DOMAIN runs : runs[i][2] <= most

\* C13 as stated: once polished, the text has no character more than four
\* times in a row, and polishing it again changes nothing.
C13_NoRunLongerThanFour ==
    /\ rounds >= 1 => LongestRun(translation) <= 4
    /\ rounds = 2 => translation = _polish_translation(given)

\* The text handed in with each newline written as a line break.
GivenWithBreaks ==
    [i \in DOMAIN given |-> IF given[i] = "n" THEN "<br />" ELSE given[i]]

\* C13, amended: _polish_translation writes each newline as '<br />' and
\* cuts every run of more than four of one word character (letter, digit,
\* underscore) to four of it; every other run, of a word character or of
\* any other character, keeps its length, so no word character is left more
\* than four times in a row; polishing the polished text changes nothing.
C13_WordRunsCutToFour ==
    /\ rounds >= 1 =>
           LET before == Runs(GivenWithBreaks)
           IN  Runs(translation) =
                   [i \in DOMAIN before |->
                       IF before[i][1] \in WordCharacters /\ before[i][2] > 4
                       THEN <<before[i][1], 4>> ELSE before[i]]
    /\ rounds = 2 => translation = _polish_translation(given)

\* A text with a newline, letters five in a row and exclamation marks five
\* in a row has been polished.
C13_Witness ==
    /\ rounds = 1
    /\ \E i \in DOMAIN Runs(given) : Runs(given)[i] = <<"l", 5>>
    /\ \E i \in DOMAIN Runs(given) : Runs(given)[i] = <<"!", 5>>
    /\ \E i \in DOMAIN given : given[i] = "n"
(***************************************************************************)
(* Claims on _create_table (checked under SpecTable)                       *)
(***************************************************************************)
\* C16: the table has the cells 45%, 10%, 45% when no column gap is set;
\* with a percentage gap g in 0..100 the outer cells are ((100 - g) / 2)%
\* each (twice their width is 100 - g) and the middle cell is g%, the three
\* widths adding up to 100%; with a fixed gap v the outer cells are 50% each
\* and the middle cell holds exactly v non-breaking spaces.
C16_TableColumnWidths ==
    pc = "built" =>
        IF column_gap = None THEN table.width = <<45, 10, 45>>
        ELSE IF column_gap[1] = "percentage"
        THEN /\ table.width[2] = column_gap[2]
             /\ table.width[1] = table.width[3]
             /\ 2 * table.width[1] = 100 - column_gap[2]
             /\ table.width[1] + table.width[2] + table.width[3] = 100
        ELSE /\ table.width[1] = 50
             /\ table.width[3] = 50
             /\ table.padding = [i \in 1..column_gap[2] |-> "nbsp"]
(***************************************************************************)
(* Claims on the record variants (checked under SpecVariants)              *)
(***************************************************************************)
\* The text field of a record, the original text the translation is joined
\* to, and the text that joins them, by class.
FieldOf(record) ==
    IF record.class = "SrtElement" THEN record.element[3]
    ELSE IF record.class = "PgnElement" THEN record.element[2]
    ELSE record.element[1]

OriginalOf(record) ==
    IF record.class = "PgnElement"
    THEN SubSeq(record.element[1], 2, Len(record.element[1]) - 1)
    ELSE FieldOf(record)

Joint(record) ==
    IF record.class = "SrtElement" THEN <<"n">>
    ELSE IF record.class = "PgnElement" THEN <<" ", "|", " ">>
    ELSE <<" ">>

\* Everything of a record but its text field.
RestOf(record) ==
    IF record.class = "SrtElement"
    THEN <<record.element[1], record.element[2]>>
    ELSE IF record.class = "PgnElement" THEN <<record.element[1]>>
    ELSE <<>>

\* C17: add_translation of a record variant leaves the record as it is when
\* the translation is none; otherwise it writes only the text field: the
\* translation alone under only, the translation before the original under
\* above and left, the original before the translation under below and
\* right, joined by a newline (subtitle), " | " (annotation) or a space
\* (metadata, TOC).
C17_RecordVariants ==
    pc = "added" =>
        /\ RestOf(element) = RestOf(given)
        /\ IF translation = None THEN element = given
           ELSE FieldOf(element) =
                    IF position = "only" THEN translation
                    ELSE IF position \in {"above", "left"}
                    THEN translation \o Joint(given) \o OriginalOf(given)
                    ELSE OriginalOf(given) \o Joint(given) \o translation

\* A subtitle cue has been given a translation to go to its right.
C17_Witness ==
    /\ pc = "added"
    /\ element.class = "SrtElement"
    /\ position = "right"
    /\ translation /= None
(***************************************************************************)
(* Claims on partial application (checked under SpecPartial)               *)
(***************************************************************************)
\* The pending map prepare_original left.
Prepared ==
    IF kind = "merge"
    THEN MergePrepareLoop(units, 0, <<>>, <<>>, 0, <<>>, <<>>, separator,
                          merge_length).elements
    ELSE SinglePrepareLoop(units, 0, 0, <<>>, <<>>).elements

\* What one call add_translations(all the paragraphs) makes of the handler
\* and the document prepare_original left.
SingleCall(all) ==
    AddTranslationsLoop(KeysInOrder(DOMAIN Prepared), units, position,
        IF kind = "merge" THEN MergePrepareTranslation(all, position, separator)
        ELSE SinglePrepareTranslation(all),
        Prepared, [u \in DOMAIN units |-> FreshNode], <<>>)

\* What the document shows of a node.
Document(node) ==
    [attached |-> node.attached, table |-> node.table,
     inserted |-> node.inserted]

\* C18: when the paragraphs are handed to add_translations in two calls,
\* the second call goes through, visits no element the first call resolved,
\* and leaves the document and the pending map as one call with all the
\* paragraphs leaves them.
C18_PartialApplicationIsSafe ==
    Len(handed) = 2 =>
        LET single == SingleCall(handed[1].all)
            pending == {handed[1].elements[k] : k \in DOMAIN handed[1].elements}
        IN  /\ ~failed
            /\ \A c \in DOMAIN calls : calls[c][1] \in pending
            /\ elements = single.elements
            /\ \A u \in DOMAIN units :
                   Document(nodes[u]) = Document(single.nodes[u])
(***************************************************************************)
(* Claim on the merge handler from prepare_original to add_translations    *)
(* (checked under Spec)                                                    *)
(***************************************************************************)
\* The pieces align_paragraph cuts the text of a batch record into.
SegmentsOfRecord(record) ==
    OriginalSegments(Paragraph(record.content, None), separator)

\* The number of elements merged into the records before record i.
RECURSIVE MergedBefore(_)
MergedBefore(i) ==
    IF i = 1 THEN 0
    ELSE MergedBefore(i - 1) + Len(SegmentsOfRecord(originals[i - 1]))

\* C19: merge then align.  Cutting the text of every batch record the way
\* align_paragraph does gives the texts of the elements merged into it, in
\* order; and when a record comes back with as many translated pieces as it
\* has elements, every element's text is a key of the lookup and the j-th
\* element of the record is given the j-th translated piece.  (A paragraph
\* is matched to its record by the text that was sent, so records sharing
\* one text are left out of the second part.)
C19_MergeAlignRoundTrip ==
    (kind = "merge" /\ pc = "translated" /\ rounds = 1 /\ ~failed) =>
        /\ Flatten([i \in 1..Len(originals) |-> SegmentsOfRecord(originals[i])])
               = ActiveContents
        /\ \A i \in 1..Len(originals) : \A k \in 1..Len(paragraphs) :
               LET paragraph == paragraphs[k]
                   pieces == TranslatedSegments(paragraph, separator)
                   merged == SegmentsOfRecord(originals[i])
               IN  (/\ paragraph.original = originals[i].content
                    /\ \A other \in 1..Len(originals) :
                           originals[other].content = originals[i].content
                               => other = i
                    /\ paragraph.translation /= None
                    /\ Len(pieces) = Len(merged)) =>
                       \A j \in 1..Len(merged) :
                           LET unit == ActiveUnits[MergedBefore(i) + j]
                           IN  /\ units[unit].content \in DOMAIN translations
                               /\ \E c \in 1..Len(calls) :
                                      calls[c] = <<unit, pieces[j]>>
(***************************************************************************)
(* Claim on Extraction.extract_elements (checked under SpecExtract)        *)
(***************************************************************************)
\* Node i has text of its own, or is a paragraph or heading with children,
\* or has a child followed by text.
Qualifies(i) ==
    LET below == {c \in DOMAIN body : body[c].parent = i}
    IN  \/ Strip(body[i].text) /= <<>>
        \/ below /= {} /\ body[i].tag \in {"p", "pre", "h1", "h2", "h3",
                                             "h4", "h5", "h6"}
        \/ \E c \in below : Strip(body[c].tail) /= <<>>

\* The nodes below the body that qualify and lie in no other qualifying
\* node.
Outermost ==
    {i \in DOMAIN body :
        /\ i /= 1
        /\ Qualifies(i)
        /\ \A above \in DOMAIN body :
               (above /= 1 /\ IsUnder(body, i, above)) => ~Qualifies(above)}

\* C20: extract_elements on a page body returns the outermost qualifying
\* nodes in document order (the walk goes into a node exactly when the node
\* does not qualify), and the body alone when no node qualifies; it never
\* returns an empty list.
C20_ExtractionGranularity ==
    pc = "extracted" =>
        /\ extracted = (IF Outermost /= {} THEN KeysInOrder(Outermost)
                        ELSE <<1>>)
        /\ Len(extracted) >= 1

\* C20 witness: a unit found inside a node that does not qualify, holding a
\* qualifying node that is not a unit of its own.
C20_Witness ==
    /\ pc = "extracted"
    /\ \E u \in 1..Len(extracted) :
           /\ body[extracted[u]].parent /= 1
           /\ \E j \in DOMAIN body :
                  body[j].parent = extracted[u] /\ Qualifies(j)
(***************************************************************************)
(* Claims on Extraction.get_elements (checked under SpecGetElements)       *)
(***************************************************************************)
\* The tree of the page a unit of the run belongs to.
TreeOf(unit) ==
    extractor.pages[CHOOSE k \in 1..Len(extractor.pages) :
                        extractor.pages[k].href = unit.page].data

\* C21: of the units one get_elements run extracts, no two wrap the same
\* node and none wraps a node that lies inside the node of another, on one
\* page and across the pages; so removing or moving the node of one unit
\* takes the node of no other unit with it.
C21_UnitsNeverNested ==
    pc = "filtered" =>
        \A u, v \in 1..Len(extracted) :
            (u /= v /\ extracted[u].page = extracted[v].page) =>
                /\ extracted[u].node /= extracted[v].node
                /\ ~IsUnder(TreeOf(extracted[u]), extracted[u].node,
                            extracted[v].node)

\* C21 witness: units on two pages, one of them holding a node that could
\* have been a unit of its own.
C21_Witness ==
    /\ pc = "filtered"
    /\ \E u, v \in 1..Len(extracted) :
           /\ extracted[u].page /= extracted[v].page
           /\ \E j \in DOMAIN TreeOf(extracted[u]) :
                  /\ IsUnder(TreeOf(extracted[u]), j, extracted[u].node)
                  /\ Strip(TreeOf(extracted[u])[j].text) /= <<>>
\* The plain text of a unit, and that text without the entities &lt; and
\* &gt;.
PlainText(unit) == Strip(itertext(TreeOf(unit), unit.node))
WithoutEntities(text) ==
    Join(Split(Join(Split(text, <<"&", "l", "t", ";">>), <<>>),
               <<"&", "g", "t", ";">>), <<>>)

\* The page and node of each unit of a list.
NodesOf(found) == [k \in 1..Len(found) |-> <<found[k].page, found[k].node>>]

\* A unit whose text without the entities is not empty.
HasTextLeft(unit) == WithoutEntities(PlainText(unit)) /= <<>>

\* Some filter pattern of the run matches the text.
FilterMatches(text) ==
    \E k \in 1..Len(extractor.filter_patterns) :
        search(extractor.filter_patterns[k], text)

\* C22: the filter drops exactly the units whose plain text, with the
\* entities &lt; and &gt; removed, is empty; the other units are retained in
\* their order, and a retained unit matching a filter pattern is ignored.
C22_DropsExactlyEmptyUnits ==
    pc = "filtered" =>
        /\ NodesOf(filtered) = NodesOf(SelectSeq(extracted, HasTextLeft))
        /\ \A k \in 1..Len(filtered) :
               FilterMatches(WithoutEntities(PlainText(filtered[k])))
                   => filtered[k].ignored
\* The unit of the list found that wraps the same node as unit.
BeforeFilter(unit) ==
    extracted[CHOOSE k \in 1..Len(extracted) :
                  /\ extracted[k].page = unit.page
                  /\ extracted[k].node = unit.node]

\* The node of the unit is one the selectors of the run name.
SelectorMatches(unit) ==
    TreeOf(unit)[unit.node].tag
        \in {"pre", "code"}
                \cup {extractor.element_rules[k] :
                          k \in 1..Len(extractor.element_rules)}

\* The raw markup of a unit.
RawMarkup(unit) == get_string(TreeOf(unit), unit.node)

\* C23 as the specification words it: a retained unit is ignored exactly
\* when a selector matched it at extraction, or a filter pattern matches
\* its plain text, or the scope is html and a filter pattern matches its raw
\* markup.
C23_IgnoredIffPlainTextMatches ==
    pc = "filtered" =>
        \A k \in 1..Len(filtered) :
            filtered[k].ignored <=>
                \/ SelectorMatches(filtered[k])
                \/ FilterMatches(PlainText(filtered[k]))
                \/ /\ extractor.filter_scope = "html"
                   /\ FilterMatches(RawMarkup(filtered[k]))

\* C23: a retained unit is ignored exactly when a selector matched it at
\* extraction, or a filter pattern matches its plain text with the entities
\* &lt; and &gt; removed (whatever the scope), or the scope is html and a
\* filter pattern matches its raw markup; the flag set at extraction is the
\* selector match, and filtering never clears it.
C23_IgnoreDecision ==
    pc = "filtered" =>
        \A k \in 1..Len(filtered) :
            /\ BeforeFilter(filtered[k]).ignored = SelectorMatches(filtered[k])
            /\ BeforeFilter(filtered[k]).ignored => filtered[k].ignored
            /\ filtered[k].ignored <=>
                   \/ SelectorMatches(filtered[k])
                   \/ FilterMatches(WithoutEntities(PlainText(filtered[k])))
                   \/ /\ extractor.filter_scope = "html"
                      /\ FilterMatches(RawMarkup(filtered[k]))

\* C23 witness: a retained unit ignored for its markup alone, beside the
\* scope being html.
C23_Witness ==
    /\ pc = "filtered"
    /\ extractor.filter_scope = "html"
    /\ \E k \in 1..Len(filtered) :
           /\ filtered[k].ignored
           /\ ~SelectorMatches(filtered[k])
           /\ ~FilterMatches(WithoutEntities(PlainText(filtered[k])))
           /\ FilterMatches(RawMarkup(filtered[k]))
(***************************************************************************)
(* Claim on get_toc_elements (checked under SpecToc)                       *)
(***************************************************************************)
\* C24: every top-level call of get_toc_elements returns exactly the units
\* of the nodes handed to that call, a node before the nodes nested in it,
\* and no unit made by an earlier call.
C24_FreshAccumulator ==
    \A c \in 1..Len(toc_calls) :
        toc_calls[c].returned
            = [i \in 1..Len(toc_calls[c].nodes) |-> [toc |-> c, node |-> i]]
(***************************************************************************)
(* Claims on the translation worker (checked under SpecWorker)             *)
(***************************************************************************)
\* The signals of one name a run has emitted, in order.
EmittedBy(run, name) ==
    SelectSeq(signals, LAMBDA s : s.run = run /\ s.signal = name)

\* The slot translate_paragraphs of the run has returned.
IsOver(run) ==
    /\ EmittedBy(run, "start") /= <<>>
    /\ worker.run /= run

\* C25: every run of translate_paragraphs emits start once and, by the time
\* the slot returns, finished exactly once, whichever step failed;
\* finished(False) on an exception comes after error; and once the worker
\* is idle and every queued signal has been processed, on_working is False
\* again.
C25_StartThenOneFinished ==
    /\ \A run \in 1..MaxRuns :
           /\ Len(EmittedBy(run, "start")) <= 1
           /\ Len(EmittedBy(run, "finished")) <= Len(EmittedBy(run, "start"))
           /\ IsOver(run) => Len(EmittedBy(run, "finished")) = 1
           /\ EmittedBy(run, "error") /= <<>> =>
                  /\ EmittedBy(run, "finished")
                         = <<[run |-> run, signal |-> "finished",
                              value |-> FALSE]>>
                  /\ signals[Len(signals)].run = run =>
                         signals[Len(signals)].signal = "finished"
    /\ (pc = "dialog" /\ worker.at = "idle" /\ translate_queue = <<>>
            /\ gui_queue = <<>>) => on_working = FALSE
\* C26: whenever a run of translate_paragraphs begins, cancelled is False:
\* no cancel request is carried over from an earlier run, whatever the
\* interleaving of the GUI thread and the worker thread.
C26_NoCancelCarriedOver ==
    [][(worker.at = "idle" /\ worker'.at = "setup") => cancelled = FALSE]_vars
=============================================================================
